---------------------------- MODULE Spec2Model ----------------------------
(***************************************************************************)
(* Model of keep94/marvin: the light-set algebra (package lights), the     *)
(* task registry (utils.TaskCollection), the admission engine              *)
(* (utils.MultiExecutor) and the timer (utils.MultiTimer).                 *)
(*                                                                         *)
(* Specifications:                                                         *)
(*   Spec       the executor driven by a caller, with its running tasks    *)
(*   SpecTimer  the timer and the executor, on a smaller set of inputs     *)
(*   SpecColl   a TaskCollection driven directly through its methods       *)
(***************************************************************************)
EXTENDS Integers, Sequences, FiniteSets, TLC

(***************************************************************************)
(* Bounds of the model.                                                    *)
(***************************************************************************)
\* light ids 1..MaxLight can be requested in Spec
MaxLight == 2
\* number of task wrappers (and executions) allocated in one behaviour of Spec
MaxStarts == 3
\* number of task wrappers allocated in one behaviour of SpecTimer
MaxTimerStarts == 2
\* the clock of SpecTimer runs over the instants 0..MaxTime
MaxTime == 1
\* an instant is a number of ticks since the unix epoch; a tick is this part
\* of a second (Go counts nanoseconds)
TicksPerSecond == 2
\* the longest time left that a timer of SpecLeft is asked for, in hours
MaxHoursLeft == 2
\* number of Add calls in one behaviour of SpecColl
MaxAdds == 3
\* number of distinct task objects handed to a TaskCollection in SpecColl
NumTasks == 4
\* the goroutines that call one TaskCollection at the same time
NumLockCallers == 2
\* the iterations of the loop of a Stack are numbered modulo NumCycles
NumCycles == 2
\* number of executions of HueTaskWrapper.Do in one behaviour of SpecLog
NumRuns == 2
\* number of weather.Cache.Set calls in one behaviour of SpecCache
MaxSets == 2
\* number of goroutines calling Push and Pop on one Stack
NumStackCallers == 2
\* the most tasks running at once on Base, and on Extra
MaxRunning == 1
\* the looks the controlled lights can have are 0..MaxLook
MaxLook == 1
\* the longest text handed to Parse in SpecText
MaxTextLen == 4

\* the light longHueAction10 adds to every request (utils_test.go)
ExtraLight == 10

(***************************************************************************)
(* Text.  A Go string is a sequence of one-character strings, so that a    *)
(* formatted value differs from the value it was formatted from.           *)
(***************************************************************************)
DigitChars == << "0", "1", "2", "3", "4", "5", "6", "7", "8", "9" >>

RECURSIVE Itoa(_)
\* strconv.Itoa for n >= 0
Itoa(n) == IF n < 10 THEN << DigitChars[n + 1] >>
           ELSE Itoa(n \div 10) \o << DigitChars[(n % 10) + 1] >>

RECURSIVE Join(_, _)
\* strings.Join(parts, sep)
Join(parts, sep) ==
  IF Len(parts) = 0 THEN << >>
  ELSE IF Len(parts) = 1 THEN parts[1]
  ELSE parts[1] \o sep \o Join(Tail(parts), sep)

RECURSIVE SortInts(_)
\* sort.Ints over the members collected from a map: ascending order
SortInts(S) ==
  IF S = {} THEN << >>
  ELSE LET m == CHOOSE x \in S : \A y \in S : x <= y
       IN  << m >> \o SortInts(S \ {m})

(***************************************************************************)
(* package lights.  A Set is a Go map[int]bool; the nil map is All.        *)
(* isNil tells the nil map; m is the map (keys with their boolean values). *)
(***************************************************************************)
EmptyMap == [i \in {} |-> TRUE]

\* var All Set = nil
All == [isNil |-> TRUE, m |-> EmptyMap]

\* var None = make(Set, 0)
None == [isNil |-> FALSE, m |-> EmptyMap]

\* l[i] on a Go map: the zero value false for a missing key (and for nil)
Lookup(l, i) == (~l.isNil) /\ i \in DOMAIN l.m /\ l.m[i]

\* len(l)
MapLen(l) == IF l.isNil THEN 0 ELSE Cardinality(DOMAIN l.m)

\* the keys that hold true
Members(l) == {i \in DOMAIN l.m : Lookup(l, i)}

New(ids) == [isNil |-> FALSE, m |-> [i \in ids |-> TRUE]]

IsAll(l) == l.isNil

\* an IsNone that asks for an empty map
IsNoneWhenEmpty(l) == (~l.isNil) /\ DOMAIN l.m = {}

IsNone(l) ==
  IF l.isNil THEN FALSE
  ELSE ~(\E i \in DOMAIN l.m : l.m[i])

\* a Slice that takes every key of the map, whatever it holds
SliceOfAllKeys(l) ==
  IF l.isNil THEN [result |-> << >>, ok |-> TRUE]
  ELSE LET result == SortInts(DOMAIN l.m)
       IN  [result |-> result, ok |-> Len(result) > 0]

\* Slice returns (result, ok)
Slice(l) ==
  IF l.isNil THEN [result |-> << >>, ok |-> TRUE]
  ELSE LET result == SortInts({i \in DOMAIN l.m : l.m[i]})
       IN  [result |-> result, ok |-> Len(result) > 0]

\* an OverlapsWith that asks whether other has the key, not what it holds
OverlapsByKey(l, other) ==
  IF l.isNil THEN ~IsNone(other)
  ELSE IF other.isNil THEN ~IsNone(l)
  ELSE LET a == IF MapLen(l) > MapLen(other) THEN other ELSE l
           b == IF MapLen(l) > MapLen(other) THEN l ELSE other
       IN  \E i \in DOMAIN a.m : Lookup(a, i) /\ i \in DOMAIN b.m

\* an OverlapsWith without the test other == nil
OverlapsNoNilOther(l, other) ==
  IF l.isNil THEN ~IsNone(other)
  ELSE LET a == IF MapLen(l) > MapLen(other) THEN other ELSE l
           b == IF MapLen(l) > MapLen(other) THEN l ELSE other
       IN  \E i \in DOMAIN a.m : Lookup(a, i) /\ Lookup(b, i)

OverlapsWith(l, other) ==
  IF l.isNil THEN ~IsNone(other)
  ELSE IF other.isNil THEN ~IsNone(l)
  ELSE LET a == IF MapLen(l) > MapLen(other) THEN other ELSE l
           b == IF MapLen(l) > MapLen(other) THEN l ELSE other
       IN  \E i \in DOMAIN a.m : Lookup(a, i) /\ Lookup(b, i)

\* an Intersect without the test other == nil
IntersectNoNilOther(l, other) ==
  IF l.isNil THEN other
  ELSE LET a == IF MapLen(l) > MapLen(other) THEN other ELSE l
           b == IF MapLen(l) > MapLen(other) THEN l ELSE other
       IN  New({i \in DOMAIN a.m : Lookup(a, i) /\ Lookup(b, i)})

Intersect(l, other) ==
  IF l.isNil THEN other
  ELSE IF other.isNil THEN l
  ELSE LET a == IF MapLen(l) > MapLen(other) THEN other ELSE l
           b == IF MapLen(l) > MapLen(other) THEN l ELSE other
       IN  New({i \in DOMAIN a.m : Lookup(a, i) /\ Lookup(b, i)})

\* a panicking call returns nothing: this value, which is no Go map (a nil map
\* holds no key), stands for "the call panicked"
Panic == [isNil |-> TRUE, m |-> [i \in {0} |-> FALSE]]

IsPanic(l) == l = Panic

\* a Subtract that drops every key other has, whatever it holds
SubtractByKey(l, other) ==
  IF l.isNil THEN Panic
  ELSE IF other.isNil THEN None
  ELSE New({i \in DOMAIN l.m : Lookup(l, i) /\ i \notin DOMAIN other.m})

\* Subtract panics on the nil receiver
Subtract(l, other) ==
  IF l.isNil THEN Panic
  ELSE IF other.isNil THEN None
  ELSE New({i \in DOMAIN l.m : Lookup(l, i) /\ ~Lookup(other, i)})

\* a MutableAdd that adds to a copy and returns the receiver as it was
MutableAddToCopy(l, other) ==
  IF other.isNil THEN Panic ELSE l

\* MutableAdd panics on the nil argument; it writes true over the receiver's
\* map, and the write l[i] = true panics when the receiver is the nil map
MutableAdd(l, other) ==
  IF other.isNil THEN Panic
  ELSE IF l.isNil THEN (IF Members(other) = {} THEN All ELSE Panic)
  ELSE [isNil |-> FALSE,
        m |-> [i \in DOMAIN l.m \cup Members(other) |->
                 IF i \in Members(other) THEN TRUE ELSE l.m[i]]]

\* an Add that tests the receiver only for nil
AddNilReceiverOnly(l, other) ==
  IF l.isNil THEN All
  ELSE MutableAdd(MutableAdd(New({}), l), other)

Add(l, other) ==
  IF l.isNil \/ other.isNil THEN All
  ELSE MutableAdd(MutableAdd(New({}), l), other)

String(l) ==
  IF l.isNil THEN << "A", "l", "l" >>
  ELSE LET s == Slice(l)
       IN  IF ~s.ok THEN << "N", "o", "n", "e" >>
           ELSE Join([k \in 1..Len(s.result) |-> Itoa(s.result[k])], << "," >>)

RECURSIVE TrimLeft(_)
TrimLeft(s) == IF Len(s) > 0 /\ s[1] = " " THEN TrimLeft(Tail(s)) ELSE s

RECURSIVE TrimRight(_)
TrimRight(s) ==
  IF Len(s) > 0 /\ s[Len(s)] = " " THEN TrimRight(SubSeq(s, 1, Len(s) - 1)) ELSE s

\* strings.TrimSpace, the space standing for every white space character
TrimSpace(s) == TrimRight(TrimLeft(s))

RECURSIVE Split(_, _)
\* strings.Split(s, sep) for a separator of one character: the pieces between
\* the separators, one piece more than there are separators
Split(s, sep) ==
  IF \A i \in 1..Len(s) : s[i] # sep THEN << s >>
  ELSE LET i == CHOOSE k \in 1..Len(s) :
                  s[k] = sep /\ \A j \in 1..(k - 1) : s[j] # sep
       IN  << SubSeq(s, 1, i - 1) >> \o Split(SubSeq(s, i + 1, Len(s)), sep)

\* the digit a character stands for
DigitOf(ch) == CHOOSE d \in 0..9 : DigitChars[d + 1] = ch

IsDigit(ch) == \E d \in 0..9 : DigitChars[d + 1] = ch

RECURSIVE DigitsValue(_, _)
\* the loop of strconv.Atoi over the digits: n = n*10 + digit
DigitsValue(s, n) ==
  IF Len(s) = 0 THEN n ELSE DigitsValue(Tail(s), n * 10 + DigitOf(s[1]))

\* strconv.Atoi: an optional sign, then one digit or more and nothing else.
\* The texts are too short for a number outside the range of int.
Atoi(s) ==
  LET signed == Len(s) > 0 /\ s[1] \in {"+", "-"}
      digits == IF signed THEN Tail(s) ELSE s
  IN  IF Len(digits) = 0 \/ \E i \in 1..Len(digits) : ~IsDigit(digits[i])
      THEN [n |-> 0, err |-> TRUE]
      ELSE [n |-> IF signed /\ s[1] = "-" THEN 0 - DigitsValue(digits, 0)
                  ELSE DigitsValue(digits, 0),
            err |-> FALSE]

\* what Parse returns when it fails: the named result is still nil
ParseError == [result |-> All, err |-> TRUE]

\* a test that lets the light 0 through
IsNegative(light) == light < 0

\* if light <= 0
NotPositive(light) == light <= 0

RECURSIVE ParseParts(_, _)
\* the second loop of Parse over parts, lightSet holding the lights so far
ParseParts(parts, lightSet) ==
  IF Len(parts) = 0 THEN [result |-> lightSet, err |-> FALSE]
  ELSE LET a == Atoi(parts[1])
       IN  IF a.err THEN ParseError
           ELSE IF NotPositive(a.n) THEN ParseError
           ELSE ParseParts(Tail(parts), MutableAdd(lightSet, New({a.n})))

\* a Parse that answers the empty text with an empty set
ParseEmptyAsNone(s) ==
  IF Len(s) = 0 THEN [result |-> None, err |-> FALSE]
  ELSE LET split == Split(s, ",")
           parts == [i \in 1..Len(split) |-> TrimSpace(split[i])]
       IN  ParseParts(parts, New({}))

\* Parse after its first line
ParseTrimmed(s) ==
  IF Len(s) = 0 THEN [result |-> All, err |-> FALSE]
  ELSE LET split == Split(s, ",")
           parts == [i \in 1..Len(split) |-> TrimSpace(split[i])]
       IN  ParseParts(parts, New({}))

Parse(s) == ParseTrimmed(TrimSpace(s))


(***************************************************************************)
(* utils: task wrappers.  A wrapper is a heap object: ref is its address,  *)
(* so two wrappers are the same object iff their refs are equal.           *)
(***************************************************************************)
\* the nil tasks.Task and the nil *tasks.Execution
NilTask == [kind |-> "nil", ref |-> 0, H |-> [Id |-> 0, act |-> "none"],
            Ls |-> All, StartTime |-> 0]
NilExec == 0

HueTaskWrapper(ref, h, ls) ==
  [kind |-> "hue", ref |-> ref, H |-> h, Ls |-> ls, StartTime |-> 0]

TimerTaskWrapper(ref, h, ls, startTime) ==
  [kind |-> "timer", ref |-> ref, H |-> h, Ls |-> ls, StartTime |-> startTime]

\* a comparison of what the two wrappers hold, not of the pointers
SameContent(a, b) == a.kind = b.kind /\ a.H = b.H /\ a.Ls = b.Ls

\* c.tasks[i].t == task on interface values holding pointers
SameObject(a, b) == a.ref = b.ref

\* a ConflictsWith that never reports a conflict, as the timer task's does
HueNeverConflicts(t, other) == FALSE

\* HueTaskWrapper.ConflictsWith
HueConflictsWith(t, other) == OverlapsWith(t.Ls, other.Ls)

\* a timer task's ConflictsWith written like the hue task's
TimerConflictsLikeHue(t, other) == OverlapsWith(t.Ls, other.Ls)

\* TimerTaskWrapper.ConflictsWith
TimerConflictsWith(t, other) == FALSE

ConflictsWith(t, other) ==
  IF t.kind = "timer" THEN TimerConflictsWith(t, other)
  ELSE HueConflictsWith(t, other)

\* HueTaskWrapper.TaskId: fmt.Sprintf("%d:%s", t.H.Id, t.Ls)
HueTaskId(t) == Itoa(t.H.Id) \o << ":" >> \o String(t.Ls)

\* time.Time.Unix: the whole seconds since the epoch
Unix(t) == t \div TicksPerSecond

\* a TaskId of the timer task written like the hue task's, without the time
TimerTaskIdNoTime(t) == Itoa(t.H.Id) \o << ":" >> \o String(t.Ls)

\* TimerTaskWrapper.TaskId: fmt.Sprintf("%d:%d:%s", t.H.Id, t.StartTime.Unix(), t.Ls)
TimerTaskId(t) ==
  Itoa(t.H.Id) \o << ":" >> \o Itoa(Unix(t.StartTime)) \o << ":" >> \o String(t.Ls)

TaskId(t) == IF t.kind = "timer" THEN TimerTaskId(t) ELSE HueTaskId(t)

\* time.Second, time.Minute, time.Hour as durations
Second == TicksPerSecond
Minute == 60 * Second
Hour == 60 * Minute

\* TimerTaskWrapper.TimeLeft: t.StartTime.Sub(now)
TimeLeft(t, n) == t.StartTime - n

\* fmt's %02d of a number that is not negative
Pad2(n) == IF n < 10 THEN << "0" >> \o Itoa(n) ELSE Itoa(n)

\* an hour field only when more than an hour is left
MoreThanAnHour(d) == d > Hour

\* d >= time.Hour
AtLeastAnHour(d) == d >= Hour

\* TimerTaskWrapper.TimeLeftStr
TimeLeftStr(t, n) ==
  LET d0 == TimeLeft(t, n) + Second
      d == IF d0 < 0 THEN 0 ELSE d0
  IN IF AtLeastAnHour(d)
     THEN Itoa(d \div Hour) \o << ":" >> \o Pad2((d % Hour) \div Minute)
          \o << ":" >> \o Pad2((d % Minute) \div Second)
     ELSE Itoa(d \div Minute) \o << ":" >> \o Pad2((d % Minute) \div Second)

\* 24 * time.Hour
Day == 24 * Hour

\* A time.Location: the offset from UTC is before until the instant at, and
\* after from then on (a zone without daylight saving has before = after).
\* the offset of the zone at instant t
Offset(loc, t) == IF t < loc.at THEN loc.before ELSE loc.after

\* time.Time.Clock in the zone, and what is left of the minute
Clock(loc, t) ==
  LET tod == (t + Offset(loc, t)) % Day
  IN  [hour |-> tod \div Hour, minute |-> (tod % Hour) \div Minute,
       rest |-> tod % Minute]

\* the instant t is hour:minute on the clock of the zone, to the second
ReadsAt(loc, t, hour, minute) ==
  Clock(loc, t) = [hour |-> hour, minute |-> minute, rest |-> 0]

\* an instant at now counts as well
NotBefore(t, n) == t >= n

\* "just after now"
JustAfter(t, n) == t > n

\* the instants around n that are hour:minute in the zone and just after n
FutureCandidates(n, loc, hour, minute) ==
  {t \in {d * Day + hour * Hour + minute * Minute - o :
            d \in ((n \div Day) - 1)..((n \div Day) + 2),
            o \in {loc.before, loc.after}} :
     ReadsAt(loc, t, hour, minute) /\ JustAfter(t, n)}

\* FutureTime: "the closest hour:minute from now that is just after now",
\* "in the same timezone as now" (the first time of
\* recurring.AtTime(hour, minute).ForTime(now))
FutureTime(n, loc, hour, minute) ==
  LET c == FutureCandidates(n, loc, hour, minute)
  IN  CHOOSE t \in c : \A u \in c : t <= u

(***************************************************************************)
(* utils.TaskCollection: c.tasks is a sequence of taskExecution{t, e}.     *)
(* Every method holds the collection's lock for its whole body, so each is *)
(* one atomic function of the sequence.                                    *)
(***************************************************************************)
CollAdd(c, t, e) == Append(c, [t |-> t, e |-> e])

\* the loop of Remove: the first index holding the same object, 0 for Go's -1
RemoveIndex(c, t) ==
  IF \E i \in 1..Len(c) : SameObject(c[i].t, t)
  THEN CHOOSE i \in 1..Len(c) :
         /\ SameObject(c[i].t, t)
         /\ \A j \in 1..(i - 1) : ~SameObject(c[j].t, t)
  ELSE 0

\* a Remove that tests idx > 0 and so never removes the first entry
CollRemoveNotFirst(c, t) ==
  LET idx == RemoveIndex(c, t)
  IN  IF idx > 1
      THEN SubSeq(c, 1, idx - 1) \o SubSeq(c, idx + 1, Len(c))
      ELSE c

CollRemove(c, t) ==
  LET idx == RemoveIndex(c, t)
  IN  IF idx # 0
      THEN SubSeq(c, 1, idx - 1) \o SubSeq(c, idx + 1, Len(c))
      ELSE c

RECURSIVE ConflictsFirstOnly(_, _, _)
\* a loop of Conflicts that leaves at the first conflicting entry
ConflictsFirstOnly(c, t, i) ==
  IF i > Len(c) THEN << >>
  ELSE IF t = NilTask \/ ConflictsWith(c[i].t, t)
       THEN << c[i].e >>
       ELSE ConflictsFirstOnly(c, t, i + 1)

RECURSIVE ConflictsFrom(_, _, _)
\* the loop of Conflicts from index i on
ConflictsFrom(c, t, i) ==
  IF i > Len(c) THEN << >>
  ELSE IF t = NilTask \/ ConflictsWith(c[i].t, t)
       THEN << c[i].e >> \o ConflictsFrom(c, t, i + 1)
       ELSE ConflictsFrom(c, t, i + 1)

\* a Conflicts that finds no task in conflict
CollConflictsNone(c, t) == << >>

CollConflicts(c, t) == ConflictsFrom(c, t, 1)

\* TaskCollection.Tasks: a copy of the tasks, in order
CollTasks(c) == [i \in 1..Len(c) |-> c[i].t]

RECURSIVE FindLastFrom(_, _, _)
\* a loop of FindByTaskId that does not return at the first match
FindLastFrom(c, taskId, i) ==
  IF i > Len(c) THEN NilExec
  ELSE IF TaskId(c[i].t) = taskId /\ FindLastFrom(c, taskId, i + 1) = NilExec
       THEN c[i].e
       ELSE FindLastFrom(c, taskId, i + 1)

RECURSIVE FindFrom(_, _, _)
\* the loop of FindByTaskId from index i on
FindFrom(c, taskId, i) ==
  IF i > Len(c) THEN NilExec
  ELSE IF TaskId(c[i].t) = taskId THEN c[i].e
       ELSE FindFrom(c, taskId, i + 1)

FindByTaskId(c, taskId) == FindFrom(c, taskId, 1)


(***************************************************************************)
(* Actions (ops.HueAction) and hue tasks (ops.HueTask{Id, HueAction}).     *)
(* The four actions are those of utils_test.go.                            *)
(***************************************************************************)
\* longHueAction.UsedLights
LongUsedLights(lightSet) == lightSet

\* longHueAction10.UsedLights
Long10UsedLights(lightSet) == Add(lightSet, New({ExtraLight}))

\* longHueActionAll.UsedLights
LongAllUsedLights(lightSet) == All

\* longHueActionFalse.UsedLights
LongFalseUsedLights(lightSet) == None

\* the lights an action of any kind knows of
AnyLights == {1, 2}

\* the UsedLights of an action of any kind: h.all is its answer for all
\* lights, h.some its answer for each set of lights
AnyUsedLights(h, lightSet) ==
  IF IsAll(lightSet) THEN h.all ELSE h.some[Members(lightSet) \cap AnyLights]

\* h.UsedLights(lightSet): dispatch on the action of the hue task
UsedLights(h, lightSet) ==
  CASE h.act = "long"      -> LongUsedLights(lightSet)
    [] h.act = "long10"    -> Long10UsedLights(lightSet)
    [] h.act = "longAll"   -> LongAllUsedLights(lightSet)
    [] h.act = "longFalse" -> LongFalseUsedLights(lightSet)
    [] h.act = "any"       -> AnyUsedLights(h, lightSet)

\* newHueTask(5), newHueTask10(6), newHueTaskAll(7), newHueTaskFalse(8)
HueTasks ==
  { [Id |-> 5, act |-> "long"], [Id |-> 6, act |-> "long10"],
    [Id |-> 7, act |-> "longAll"], [Id |-> 8, act |-> "longFalse"] }

\* the light sets a caller may request: All, None, each single light of
\* 1..MaxLight and all of them together
Requests ==
  {All, None, New(1..MaxLight)} \cup {New({i}) : i \in 1..MaxLight}

(***************************************************************************)
(* utils.MultiExecutor.MaybeStart, lines 514-561, as a function of the     *)
(* snapshot runningTasks read by m.Tasks().  The result tells what the     *)
(* call does next: "start" (m.Start(h, ls)), "decline" (return nil) or     *)
(* "panic".                                                                *)
(***************************************************************************)
Decline == [kind |-> "decline", ls |-> None]
StartWith(ls) == [kind |-> "start", ls |-> ls]
Panics == [kind |-> "panic", ls |-> None]

RECURSIVE LightsInUseSkipAll(_, _, _)
\* a loop that skips a task using all lights instead of giving up
LightsInUseSkipAll(runningTasks, i, acc) ==
  IF i > Len(runningTasks) THEN acc
  ELSE IF IsAll(runningTasks[i].Ls)
       THEN LightsInUseSkipAll(runningTasks, i + 1, acc)
       ELSE LightsInUseSkipAll(runningTasks, i + 1,
                               MutableAdd(acc, runningTasks[i].Ls))

RECURSIVE LightsInUseFrom(_, _, _)
\* the loop over runningTasks from index i on; acc is lightsInUse so far.
\* Panic stands for the early "return nil" on a task that uses all lights.
LightsInUseFrom(runningTasks, i, acc) ==
  IF i > Len(runningTasks) THEN acc
  ELSE IF IsAll(runningTasks[i].Ls) THEN Panic
       ELSE LightsInUseFrom(runningTasks, i + 1,
                            MutableAdd(acc, runningTasks[i].Ls))

\* MaybeStart without its first test, len(runningTasks) == 0
MaybeStartNoEmptyCase(runningTasks, h, lightSet) ==
  LET neededLights == UsedLights(h, lightSet)
      lightsInUse == LightsInUseFrom(runningTasks, 1, New({}))
      neededAndAvailableLights == Subtract(neededLights, lightsInUse)
      lightsThatWillBeUsed == UsedLights(h, neededAndAvailableLights)
  IN  IF IsNone(neededLights) THEN Decline
      ELSE IF IsAll(neededLights) THEN Decline
      ELSE IF IsPanic(lightsInUse) THEN Decline
      ELSE IF IsNone(neededAndAvailableLights) THEN Decline
      ELSE IF IsNone(lightsThatWillBeUsed) THEN Decline
      ELSE IF IsPanic(Subtract(lightsThatWillBeUsed, neededAndAvailableLights))
           THEN Panics
      ELSE IF IsNone(Subtract(lightsThatWillBeUsed, neededAndAvailableLights))
           THEN StartWith(lightsThatWillBeUsed)
      ELSE Decline

\* MaybeStart without its last test, that nothing needed is unavailable
MaybeStartNoSubsetTest(runningTasks, h, lightSet) ==
  IF Len(runningTasks) = 0 THEN StartWith(lightSet)
  ELSE
  LET neededLights == UsedLights(h, lightSet)
      lightsInUse == LightsInUseFrom(runningTasks, 1, New({}))
      neededAndAvailableLights == Subtract(neededLights, lightsInUse)
      lightsThatWillBeUsed == UsedLights(h, neededAndAvailableLights)
  IN  IF IsNone(neededLights) THEN Decline
      ELSE IF IsAll(neededLights) THEN Decline
      ELSE IF IsPanic(lightsInUse) THEN Decline
      ELSE IF IsNone(neededAndAvailableLights) THEN Decline
      ELSE IF IsNone(lightsThatWillBeUsed) THEN Decline
      ELSE StartWith(lightsThatWillBeUsed)

MaybeStartDecision(runningTasks, h, lightSet) ==
  IF Len(runningTasks) = 0 THEN StartWith(lightSet)
  ELSE
  LET neededLights == UsedLights(h, lightSet)
      lightsInUse == LightsInUseFrom(runningTasks, 1, New({}))
      neededAndAvailableLights == Subtract(neededLights, lightsInUse)
      lightsThatWillBeUsed == UsedLights(h, neededAndAvailableLights)
  IN  IF IsNone(neededLights) THEN Decline
      ELSE IF IsAll(neededLights) THEN Decline
      ELSE IF IsPanic(lightsInUse) THEN Decline
      ELSE IF IsNone(neededAndAvailableLights) THEN Decline
      ELSE IF IsNone(lightsThatWillBeUsed) THEN Decline
      ELSE IF IsPanic(Subtract(lightsThatWillBeUsed, neededAndAvailableLights))
           THEN Panics
      ELSE IF IsNone(Subtract(lightsThatWillBeUsed, neededAndAvailableLights))
           THEN StartWith(lightsThatWillBeUsed)
      ELSE Decline


(***************************************************************************)
(* State.                                                                  *)
(*   tc        the TaskCollection of each tasks.MultiExecutor: "exec" is   *)
(*             utils.MultiExecutor.me, "sched" is MultiTimer.scheduler     *)
(*   starting  the Start call each tasks.MultiExecutor is serving, if any  *)
(*   tstate    the position of each timer task's goroutine                 *)
(*   ended     executions on which End() was called and that are not done  *)
(*   nextRef   the next wrapper / execution to be allocated                *)
(*   refCap    the number of wrappers a behaviour may allocate             *)
(*   now       the clock                                                   *)
(*   pc        the position of each caller                                 *)
(*   last      the operation that led to this state and its result         *)
(*   coll, collE, clast   the collection, handle counter and last          *)
(*             operation of SpecColl                                       *)
(* A wrapper's execution is named by the wrapper's ref.  An execution is   *)
(* done once its entry has left its collection.                            *)
(***************************************************************************)
VARIABLES tc, starting, tstate, ended, nextRef, refCap, now, pc, last,
          coll, collE, clast, rwmutex, cpc,
          la, lb, lop, lres,
          stack, spc, mex, look,
          fin, fop, fout,
          wrun, hlog,
          cache, chans, ccall

execVars == << tc, starting, tstate, ended, nextRef, refCap, now, pc, last >>
collVars == << coll, collE, clast, rwmutex, cpc >>
lightVars == << la, lb, lop, lres >>
stackVars == << stack, spc, mex, look >>
pureVars == << fin, fop, fout >>
moreVars == << wrun, hlog, cache, chans, ccall >>
vars == << tc, starting, tstate, ended, nextRef, refCap, now, pc, last,
           coll, collE, clast, rwmutex, cpc, la, lb, lop, lres, stack, spc,
           mex, look, fin, fop, fout, wrun, hlog, cache, chans, ccall >>

\* the registry of running hue tasks and the registry of pending timer tasks
reg == tc.exec
sched == tc.sched

\* the goroutines that call the executor and the timer from outside
Callers == {"a"}

\* a caller's position: the call it is in, who made the call ("call" for a
\* direct call, "low" or "high" for the task of HueTaskToScheduledTask), the
\* snapshot MaybeStart read and the execution Stop waits for
IdlePc == [op |-> "idle", from |-> "none", snap |-> << >>, e |-> NilExec]

NoStart == [busy |-> FALSE, by |-> "none", tref |-> 0, via |-> "none",
            t |-> NilTask, wait |-> {}]

Refs(c) == {c[i].e : i \in 1..Len(c)}

Range(f) == {f[i] : i \in DOMAIN f}

\* the entry of execution e in collection c
EntryOf(c, e) == c[CHOOSE i \in 1..Len(c) : c[i].e = e]

Note(op, via, res) == [op |-> op, via |-> via, from |-> "none", res |-> res]

NoteFrom(op, via, from, res) == [op |-> op, via |-> via, from |-> from, res |-> res]

ExecInit ==
  /\ refCap \in {MaxStarts, MaxTimerStarts}
  /\ tc = [exec |-> << >>, sched |-> << >>]
  /\ starting = [exec |-> NoStart, sched |-> NoStart]
  /\ tstate = [r \in {} |-> "new"]
  /\ ended = {}
  /\ nextRef = 1
  /\ now = 0
  /\ pc = [c \in Callers |-> IdlePc]
  /\ last = Note("init", "none", NilExec)

\* the goroutines that call one TaskCollection at the same time
LockCallers == 1..NumLockCallers

\* a sync.RWMutex nobody holds: w is the goroutine holding the write lock
\* (0 for none), r the goroutines holding the read lock
Unlocked == [w |-> 0, r |-> {}]

\* a goroutine outside every call of the TaskCollection
IdleCall == [op |-> "idle", at |-> "idle", t |-> NilTask, id |-> << >>,
             e |-> NilExec, old |-> << >>, res |-> << >>]

\* the executions of HueTaskWrapper.Do, none begun, and the log they share
Runs == 1..NumRuns
NoRun == [at |-> "none", log |-> FALSE, err |-> FALSE, ended |-> FALSE,
          got |-> "none"]

LogInit ==
  /\ wrun = [r \in Runs |-> NoRun]
  /\ hlog = << >>

\* the goroutines that use one weather.Cache
CacheCallers == {"a", "b"}

\* a nil *Observation and a nil channel
NilObservation == 0
NilChan == 0

\* a goroutine outside Set, Get and Close that holds nothing from Get
IdleCacheCall == [at |-> "idle", op |-> "none", o |-> NilObservation,
                  ch |-> NilChan]

\* NewCache: &Cache{stale: make(chan struct{})}
NewCache ==
  /\ cache = [observation |-> NilObservation, stale |-> 1]
  /\ chans = [n \in {1} |-> "open"]
  /\ ccall = [g \in CacheCallers |-> IdleCacheCall]

CollInit ==
  /\ LogInit
  /\ NewCache
  /\ rwmutex = Unlocked
  /\ cpc = [g \in LockCallers |-> IdleCall]
  /\ coll = << >>
  /\ collE = 1
  /\ clast = [op |-> "init", t |-> NilTask, id |-> << >>, pre |-> << >>,
              res |-> << >>, found |-> NilExec]

\* no light set operation under way
LightsIdle ==
  /\ la = None
  /\ lb = None
  /\ lop = "none"
  /\ lres = FALSE

\* the goroutines that call Push and Pop
StackCallers == 1..NumStackCallers

\* lightColors == nil, and a snapshot holding the look of the lights
NilColors == [isNil |-> TRUE, look |-> 0]
Colors(n) == [isNil |-> FALSE, look |-> n]

\* a caller outside Push and Pop
IdleCaller == [op |-> "idle", ch |-> "none"]

\* NewStack: the loop waits on s.first; Base runs; no task runs yet.  from,
\* accepted, done, err and hadErr record what the loop did: whose request
\* it received last and of which kind, the steps of the current round, and
\* whether the Snapshot of this round, or of any round, failed.  cycle
\* numbers the iterations of the for loop (counted modulo NumCycles), taken
\* is the iteration whose Snapshot call assigned lightColors, and uses counts
\* the restorations run from the value lightColors holds.
StackNew(extraPaused) ==
  /\ stack = [at |-> "first", lightColors |-> NilColors, from |-> 0,
              accepted |-> "none", done |-> << >>, err |-> FALSE,
              hadErr |-> FALSE, cycle |-> 0, taken |-> 0, uses |-> 0]
  /\ spc = [c \in StackCallers |-> IdleCaller]
  /\ mex = [Base |-> [paused |-> FALSE, active |-> 0],
            Extra |-> [paused |-> extraPaused, active |-> 0]]
  /\ look = 0

\* no function applied to an argument of its own
PureIdle ==
  /\ fin = [kind |-> "none"]
  /\ fop = "none"
  /\ fout = FALSE

Init ==
  /\ ExecInit /\ refCap = MaxStarts /\ CollInit /\ LightsIdle /\ StackNew(TRUE)
  /\ PureIdle

TimerInit ==
  /\ ExecInit /\ refCap = MaxTimerStarts /\ CollInit /\ LightsIdle
  /\ StackNew(TRUE) /\ PureIdle

(***************************************************************************)
(* tasks.MultiExecutor, the library behind utils.MultiExecutor.me and      *)
(* MultiTimer.scheduler.  Start(t) is served one call at a time: it calls  *)
(* End() on every execution of tc.Conflicts(t), waits for each to be done, *)
(* then starts t and calls tc.Add(t, e).  When t returns from Do the       *)
(* library calls tc.Remove(t) and the execution is done.                   *)
(***************************************************************************)
\* "now" when Start(t) on m finds nothing to end, "wait" otherwise
MEOutcome(m, t) ==
  IF CollConflicts(tc[m], t) = << >> THEN "now" ELSE "wait"

\* tasks.MultiExecutor.Start(t) on m, called by `by` (a caller, or "timer"
\* for the timer task tref); sets tc, starting, ended and nextRef
MEStart(m, t, by, tref, via) ==
  LET conflicts == Range(CollConflicts(tc[m], t))
  IN  /\ ~starting[m].busy
      /\ nextRef <= refCap
      /\ nextRef' = nextRef + 1
      /\ IF conflicts = {}
         THEN /\ tc' = [tc EXCEPT ![m] = CollAdd(@, t, t.ref)]
              /\ UNCHANGED << ended, starting >>
         ELSE /\ ended' = ended \cup conflicts
              /\ starting' = [starting EXCEPT ![m] =
                                [busy |-> TRUE, by |-> by, tref |-> tref,
                                 via |-> via, t |-> t, wait |-> conflicts]]
              /\ UNCHANGED tc

\* the goroutine of timer task r returns from Do
TimerGone(c, r) == CollRemove(c, EntryOf(c, r).t)

\* the Start served by m has seen all its conflicts done: it adds its task
MEStartDone(m) ==
  /\ starting[m].busy
  /\ starting[m].wait \cap Refs(tc[m]) = {}
  /\ starting' = [starting EXCEPT ![m] = NoStart]
  /\ last' = NoteFrom("StartDone", starting[m].via,
                      IF starting[m].by = "timer" THEN "none"
                      ELSE pc[starting[m].by].from,
                      starting[m].t.ref)
  /\ IF starting[m].by = "timer"
     THEN \* TimerTaskWrapper.Do returns after t.Executor.Start
          /\ tc' = [exec |-> CollAdd(tc.exec, starting[m].t, starting[m].t.ref),
                    sched |-> TimerGone(tc.sched, starting[m].tref)]
          /\ tstate' = [r \in DOMAIN tstate \ {starting[m].tref} |-> tstate[r]]
          /\ ended' = ended \ {starting[m].tref}
          /\ UNCHANGED pc
     ELSE /\ tc' = [tc EXCEPT ![m] = CollAdd(@, starting[m].t, starting[m].t.ref)]
          /\ tstate' = IF m = "sched"
                       THEN [r \in DOMAIN tstate \cup {starting[m].t.ref} |->
                               IF r = starting[m].t.ref THEN "new" ELSE tstate[r]]
                       ELSE tstate
          /\ pc' = [pc EXCEPT ![starting[m].by] = IdlePc]
          /\ UNCHANGED ended
  /\ UNCHANGED << nextRef, now >>

\* a running hue task returns from Do (by itself or after End()): the
\* library removes it from the collection and its execution is done
TaskFinish(e) ==
  /\ e \in Refs(reg)
  /\ tc' = [tc EXCEPT !.exec = CollRemove(@, EntryOf(reg, e).t)]
  /\ ended' = ended \ {e}
  /\ last' = Note("TaskFinish", "none", e)
  /\ UNCHANGED << starting, tstate, nextRef, now, pc >>

(***************************************************************************)
(* utils.MultiExecutor                                                     *)
(***************************************************************************)
\* what Start(h, lightSet) does in the current state: "decline" (no lights),
\* "now" (the task is added at once) or "wait" (conflicts are ended first)
StartOutcome(h, lightSet) ==
  LET usedLights == UsedLights(h, lightSet)
  IN  IF IsNone(usedLights) THEN "decline"
      ELSE MEOutcome("exec", HueTaskWrapper(nextRef, h, usedLights))

\* a Start without the test usedLights.IsNone()
DoStartNoTest(by, via, from, h, lightSet) ==
  LET usedLights == UsedLights(h, lightSet)
      t == HueTaskWrapper(nextRef, h, usedLights)
  IN  /\ MEStart("exec", t, by, 0, via)
      /\ last' = IF MEOutcome("exec", t) = "now"
                 THEN NoteFrom("Start", via, from, t.ref)
                 ELSE NoteFrom("StartWait", via, from, NilExec)

\* Start(h, lightSet) called by `by` on behalf of operation `via`;
\* sets tc, starting, ended, nextRef and last
DoStart(by, via, from, h, lightSet) ==
  LET usedLights == UsedLights(h, lightSet)
      t == HueTaskWrapper(nextRef, h, usedLights)
  IN  IF IsNone(usedLights)
      THEN /\ last' = NoteFrom("Start", via, from, NilExec)
           /\ UNCHANGED << tc, starting, ended, nextRef >>
      ELSE /\ MEStart("exec", t, by, 0, via)
           /\ last' = IF MEOutcome("exec", t) = "now"
                      THEN NoteFrom("Start", via, from, t.ref)
                      ELSE NoteFrom("StartWait", via, from, NilExec)

\* Start(h, lightSet) called by caller c
Start(c, from, h, lightSet) ==
  /\ pc[c].op = "idle"
  /\ DoStart(c, "Start", from, h, lightSet)
  /\ pc' = [pc EXCEPT ![c] =
              IF StartOutcome(h, lightSet) = "wait"
              THEN [IdlePc EXCEPT !.op = "Start", !.from = from] ELSE IdlePc]
  /\ UNCHANGED << tstate, now >>

\* MaybeStart, first step: runningTasks := m.Tasks()
MaybeStartRead(c, from) ==
  /\ pc[c].op = "idle"
  /\ pc' = [pc EXCEPT ![c] = [IdlePc EXCEPT !.op = "MaybeStart", !.from = from,
                                             !.snap = CollTasks(reg)]]
  /\ last' = NoteFrom("MaybeStartRead", "MaybeStart", from, NilExec)
  /\ UNCHANGED << tc, starting, tstate, ended, nextRef, now >>

\* MaybeStart(h, lightSet), the rest: the decision on the snapshot and the
\* call of Start
MaybeStart(c, h, lightSet) ==
  /\ pc[c].op = "MaybeStart"
  /\ LET d == MaybeStartDecision(pc[c].snap, h, lightSet)
     IN  CASE d.kind = "decline" ->
                /\ last' = NoteFrom("MaybeStart", "MaybeStart", pc[c].from, NilExec)
                /\ pc' = [pc EXCEPT ![c] = IdlePc]
                /\ UNCHANGED << tc, starting, ended, nextRef >>
           [] d.kind = "panic" ->
                /\ last' = NoteFrom("Panic", "MaybeStart", pc[c].from, NilExec)
                /\ pc' = [pc EXCEPT ![c] = [IdlePc EXCEPT !.op = "panicked"]]
                /\ UNCHANGED << tc, starting, ended, nextRef >>
           [] d.kind = "start" ->
                /\ DoStart(c, "MaybeStart", pc[c].from, h, d.ls)
                /\ pc' = [pc EXCEPT ![c] =
                            IF StartOutcome(h, d.ls) = "wait"
                            THEN [IdlePc EXCEPT !.op = "Start", !.from = pc[c].from]
                            ELSE IdlePc]
  /\ UNCHANGED << tstate, now >>

\* the task built by HueTaskToScheduledTask(id, h, lightSet, r, hiPriority, te)
\* is run by caller c: te.Start if hiPriority, te.MaybeStart otherwise
ScheduledTaskDo(c, hiPriority, h, lightSet) ==
  IF hiPriority THEN Start(c, "high", h, lightSet)
  ELSE MaybeStartRead(c, "low")

\* the task ids a caller may pass: those of the registered tasks and "18:5"
AbsentId == Itoa(18) \o << ":" >> \o Itoa(5)
KnownIds(c) == {TaskId(c[i].t) : i \in 1..Len(c)} \cup {AbsentId}

\* a Stop or Cancel that ends every execution registered under the task id
StopInEndsAll(m, op, c, taskId) ==
  /\ pc[c].op = "idle"
  /\ LET e == FindByTaskId(tc[m], taskId)
     IN  IF e = NilExec
         THEN /\ last' = Note(op, op, NilExec)
              /\ UNCHANGED << ended, pc >>
         ELSE /\ ended' = ended \cup {tc[m][i].e : i \in {j \in 1..Len(tc[m]) :
                                                        TaskId(tc[m][j].t) = taskId}}
              /\ pc' = [pc EXCEPT ![c] = [IdlePc EXCEPT !.op = op, !.e = e]]
              /\ last' = Note("Wait", op, e)
  /\ UNCHANGED << tc, starting, tstate, nextRef, now >>

\* Stop(taskId) on the executor, Cancel(taskId) on the timer: FindByTaskId,
\* then e.End() and the wait on e.Done()
StopIn(m, op, c, taskId) ==
  /\ pc[c].op = "idle"
  /\ LET e == FindByTaskId(tc[m], taskId)
     IN  IF e = NilExec
         THEN /\ last' = Note(op, op, NilExec)
              /\ UNCHANGED << ended, pc >>
         ELSE /\ ended' = ended \cup {e}
              /\ pc' = [pc EXCEPT ![c] = [IdlePc EXCEPT !.op = op, !.e = e]]
              /\ last' = Note("Wait", op, e)
  /\ UNCHANGED << tc, starting, tstate, nextRef, now >>

Stop(c, taskId) == StopIn("exec", "Stop", c, taskId)

Cancel(c, taskId) == StopIn("sched", "Cancel", c, taskId)

\* a Stop or Cancel that returns without the wait on e.Done()
StopDoneNoWait(c) ==
  /\ pc[c].op \in {"Stop", "Cancel"}
  /\ pc' = [pc EXCEPT ![c] = IdlePc]
  /\ last' = Note("Done", pc[c].op, pc[c].e)
  /\ UNCHANGED << tc, starting, tstate, ended, nextRef, now >>

\* <-e.Done() returns in Stop or Cancel
StopDone(c) ==
  /\ pc[c].op \in {"Stop", "Cancel"}
  /\ pc[c].e \notin Refs(IF pc[c].op = "Stop" THEN reg ELSE sched)
  /\ pc' = [pc EXCEPT ![c] = IdlePc]
  /\ last' = Note("Done", pc[c].op, pc[c].e)
  /\ UNCHANGED << tc, starting, tstate, ended, nextRef, now >>

(***************************************************************************)
(* utils.MultiTimer                                                        *)
(***************************************************************************)
\* Schedule(h, lightSet, startTime) called by caller c
Schedule(c, h, lightSet, startTime) ==
  /\ pc[c].op = "idle"
  /\ LET usedLights == UsedLights(h, lightSet)
         t == TimerTaskWrapper(nextRef, h, usedLights, startTime)
     IN  IF IsNone(usedLights)
         THEN /\ last' = Note("Schedule", "Schedule", NilExec)
              /\ UNCHANGED << tc, starting, tstate, ended, nextRef, pc >>
         ELSE /\ MEStart("sched", t, c, 0, "Schedule")
              /\ IF MEOutcome("sched", t) = "now"
                 THEN /\ last' = Note("Schedule", "Schedule", t.ref)
                      /\ tstate' = [r \in DOMAIN tstate \cup {t.ref} |->
                                      IF r = t.ref THEN "new" ELSE tstate[r]]
                      /\ UNCHANGED pc
                 ELSE /\ last' = Note("StartWait", "Schedule", NilExec)
                      /\ pc' = [pc EXCEPT ![c] = [IdlePc EXCEPT !.op = "Start"]]
                      /\ UNCHANGED tstate
  /\ UNCHANGED now

\* timer task r leaves the scheduler: its Do has returned
TimerReturn(r, op) ==
  /\ tc' = [tc EXCEPT !.sched = TimerGone(@, r)]
  /\ tstate' = [x \in DOMAIN tstate \ {r} |-> tstate[x]]
  /\ ended' = ended \ {r}
  /\ last' = Note(op, "Timer", r)
  /\ UNCHANGED << starting, nextRef >>

\* a test of the delay that lets a delay of zero through
ElapsedStrict(d) == d < 0

\* TimerTaskWrapper.Do: if d <= 0 { return }
Elapsed(d) == d <= 0

\* an e.Sleep(d) that tells true once the time has come, ended or not
SleptWhateverEnded(r) == now >= EntryOf(sched, r).t.StartTime

\* e.Sleep(d) returns true: the time has come and the execution was not ended
SleptFully(r) ==
  /\ r \notin ended
  /\ now >= EntryOf(sched, r).t.StartTime

\* TimerTaskWrapper.Do, first lines: d := t.StartTime.Sub(e.Now())
TimerBegin(r) ==
  /\ r \in DOMAIN tstate
  /\ tstate[r] = "new"
  /\ IF Elapsed(EntryOf(sched, r).t.StartTime - now)
     THEN TimerReturn(r, "TimerPast")
     ELSE /\ tstate' = [tstate EXCEPT ![r] = "sleep"]
          /\ last' = Note("TimerSleep", "Timer", r)
          /\ UNCHANGED << tc, starting, ended, nextRef >>
  /\ UNCHANGED << now, pc >>

\* e.Sleep(d) returns false: the execution was ended while asleep
TimerInterrupted(r) ==
  /\ r \in DOMAIN tstate
  /\ tstate[r] = "sleep"
  /\ r \in ended
  /\ TimerReturn(r, "TimerInterrupted")
  /\ UNCHANGED << now, pc >>

\* e.Sleep(d) returns true: t.Executor.Start(t.H, t.Ls)
TimerFire(r) ==
  /\ r \in DOMAIN tstate
  /\ tstate[r] = "sleep"
  /\ SleptFully(r)
  /\ LET t == EntryOf(sched, r).t
         usedLights == UsedLights(t.H, t.Ls)
         w == HueTaskWrapper(nextRef, t.H, usedLights)
     IN  IF IsNone(usedLights)
         THEN TimerReturn(r, "TimerFire")
         ELSE /\ ~starting.exec.busy
              /\ nextRef <= refCap
              /\ nextRef' = nextRef + 1
              /\ IF MEOutcome("exec", w) = "now"
                 THEN /\ tc' = [exec |-> CollAdd(tc.exec, w, w.ref),
                                sched |-> TimerGone(tc.sched, r)]
                      /\ tstate' = [x \in DOMAIN tstate \ {r} |-> tstate[x]]
                      /\ last' = Note("Start", "Timer", w.ref)
                      /\ UNCHANGED << ended, starting >>
                 ELSE /\ ended' = ended \cup Range(CollConflicts(tc.exec, w))
                      /\ starting' = [starting EXCEPT !.exec =
                                        [busy |-> TRUE, by |-> "timer", tref |-> r,
                                         via |-> "Timer", t |-> w,
                                         wait |-> Range(CollConflicts(tc.exec, w))]]
                      /\ tstate' = [tstate EXCEPT ![r] = "starting"]
                      /\ last' = Note("StartWait", "Timer", NilExec)
                      /\ UNCHANGED tc
  /\ UNCHANGED << now, pc >>

\* the clock advances by one tick
Tick ==
  /\ now < MaxTime
  /\ now' = now + 1
  /\ last' = Note("Tick", "none", NilExec)
  /\ UNCHANGED << tc, starting, tstate, ended, nextRef, pc >>

\* what the steps of the executor and the timer leave alone
others == << coll, collE, clast, rwmutex, cpc, refCap, lightVars, stackVars,
            pureVars, moreVars >>

Next ==
  \/ \E c \in Callers, h \in HueTasks, ls \in Requests :
       (Start(c, "call", h, ls) /\ UNCHANGED others)
  \/ \E c \in Callers : (MaybeStartRead(c, "call") /\ UNCHANGED others)
  \/ \E c \in Callers, h \in HueTasks, ls \in Requests :
       (MaybeStart(c, h, ls) /\ UNCHANGED others)
  \/ \E c \in Callers, hiPriority \in BOOLEAN, h \in HueTasks, ls \in Requests :
       (ScheduledTaskDo(c, hiPriority, h, ls) /\ UNCHANGED others)
  \/ (MEStartDone("exec") /\ UNCHANGED others)
  \/ \E e \in Refs(reg) : (TaskFinish(e) /\ UNCHANGED others)
  \/ \E c \in Callers, id \in KnownIds(reg) : (Stop(c, id) /\ UNCHANGED others)
  \/ \E c \in Callers : (StopDone(c) /\ UNCHANGED others)

Spec == Init /\ [][Next]_vars

(***************************************************************************)
(* SpecTimer: the timer with the executor it feeds.                        *)
(***************************************************************************)
\* the hue tasks and light sets used with the timer
SchedHueTasks == {h \in HueTasks : h.act \in {"long", "longFalse"}}
SchedRequests == {All, New({1})}

TimerNext ==
  \/ \E c \in Callers, h \in SchedHueTasks, ls \in SchedRequests :
       (Start(c, "call", h, ls) /\ UNCHANGED others)
  \/ \E c \in Callers : (MaybeStartRead(c, "call") /\ UNCHANGED others)
  \/ \E c \in Callers, h \in SchedHueTasks, ls \in SchedRequests :
       (MaybeStart(c, h, ls) /\ UNCHANGED others)
  \/ \E m \in {"exec", "sched"} : (MEStartDone(m) /\ UNCHANGED others)
  \/ \E e \in Refs(reg) : (TaskFinish(e) /\ UNCHANGED others)
  \/ \E c \in Callers, id \in KnownIds(reg) : (Stop(c, id) /\ UNCHANGED others)
  \/ \E c \in Callers, id \in KnownIds(sched) : (Cancel(c, id) /\ UNCHANGED others)
  \/ \E c \in Callers : (StopDone(c) /\ UNCHANGED others)
  \/ \E c \in Callers, h \in SchedHueTasks, ls \in SchedRequests, st \in 0..MaxTime :
       (Schedule(c, h, ls, st) /\ UNCHANGED others)
  \/ \E r \in DOMAIN tstate : (TimerBegin(r) /\ UNCHANGED others)
  \/ \E r \in DOMAIN tstate : (TimerInterrupted(r) /\ UNCHANGED others)
  \/ \E r \in DOMAIN tstate : (TimerFire(r) /\ UNCHANGED others)
  \/ (Tick /\ UNCHANGED others)

SpecTimer == TimerInit /\ [][TimerNext]_vars

\* The goroutines of the tasks and of the library keep running.  A hue task
\* whose execution was ended returns from Do: its Sleep returns at once.  A
\* timer task whose execution was ended gets through the first lines of Do
\* and its Sleep returns false.  A Start whose conflicts are done goes on.
TimerFairness ==
  /\ \A e \in 1..MaxTimerStarts :
       WF_vars(e \in ended /\ TaskFinish(e) /\ UNCHANGED others)
  /\ \A r \in 1..MaxTimerStarts :
       WF_vars(r \in ended /\ TimerBegin(r) /\ UNCHANGED others)
  /\ \A r \in 1..MaxTimerStarts :
       WF_vars(TimerInterrupted(r) /\ UNCHANGED others)
  /\ \A m \in {"exec", "sched"} :
       WF_vars(MEStartDone(m) /\ UNCHANGED others)

SpecTimerFair == TimerInit /\ [][TimerNext]_vars /\ TimerFairness

(***************************************************************************)
(* SpecRace: two goroutines calling MaybeStart on one executor.            *)
(***************************************************************************)
RaceCallers == {"a", "b"}

\* the light sets asked for: all lights, light 1 and light 2
RaceRequests == {All, New({1}), New({2})}

\* a new executor, no call under way
RaceInit ==
  /\ refCap = MaxStarts
  /\ tc = [exec |-> << >>, sched |-> << >>]
  /\ starting = [exec |-> NoStart, sched |-> NoStart]
  /\ tstate = [r \in {} |-> "new"]
  /\ ended = {}
  /\ nextRef = 1
  /\ now = 0
  /\ pc = [c \in RaceCallers |-> IdlePc]
  /\ last = Note("init", "none", NilExec)
  /\ CollInit /\ LightsIdle /\ StackNew(TRUE) /\ PureIdle

RaceNext ==
  \/ \E c \in RaceCallers : (MaybeStartRead(c, "call") /\ UNCHANGED others)
  \/ \E c \in RaceCallers, h \in SchedHueTasks, ls \in RaceRequests :
       (MaybeStart(c, h, ls) /\ UNCHANGED others)
  \/ (MEStartDone("exec") /\ UNCHANGED others)
  \/ \E e \in Refs(reg) : (TaskFinish(e) /\ UNCHANGED others)

\* a task told to end returns from Do, the Start that waited goes on, and a
\* call of MaybeStart that has read the tasks goes on
RaceFairness ==
  /\ \A e \in 1..MaxStarts :
       WF_vars(e \in ended /\ TaskFinish(e) /\ UNCHANGED others)
  /\ WF_vars(MEStartDone("exec") /\ UNCHANGED others)
  /\ \A c \in RaceCallers :
       WF_vars(\E h \in SchedHueTasks, ls \in RaceRequests :
                 (MaybeStart(c, h, ls) /\ UNCHANGED others))

SpecRace == RaceInit /\ [][RaceNext]_vars /\ RaceFairness

(***************************************************************************)
(* SpecAny: MaybeStart of a hue task whose UsedLights is any function at   *)
(* all, beside tasks of longHueAction.                                     *)
(***************************************************************************)
\* what a UsedLights may return
AnyValues == {All} \cup {New(S) : S \in SUBSET AnyLights}

\* the hue tasks with each function from light sets to light sets
AnyHueTasks ==
  {[Id |-> 9, act |-> "any", all |-> a, some |-> f] :
     a \in AnyValues, f \in [SUBSET AnyLights -> AnyValues]}

\* the light sets asked for
AnyRequests == AnyValues

\* the lights of the tasks of longHueAction: one the action knows of, one
\* it does not
AnyRunning == {New({1}), New({ExtraLight})}

\* a new executor; fin.h is the hue task given to MaybeStart
AnyInit ==
  /\ ExecInit /\ refCap = MaxTimerStarts /\ CollInit /\ LightsIdle
  /\ StackNew(TRUE)
  /\ fin \in {[kind |-> "any", h |-> h] : h \in AnyHueTasks}
  /\ fop = "none"
  /\ fout = FALSE

AnyNext ==
  \/ \E c \in Callers, ls \in AnyRunning :
       (Start(c, "call", [Id |-> 5, act |-> "long"], ls) /\ UNCHANGED others)
  \/ \E c \in Callers : (MaybeStartRead(c, "call") /\ UNCHANGED others)
  \/ \E c \in Callers, ls \in AnyRequests :
       (MaybeStart(c, fin.h, ls) /\ UNCHANGED others)
  \/ (MEStartDone("exec") /\ UNCHANGED others)
  \/ \E e \in Refs(reg) : (TaskFinish(e) /\ UNCHANGED others)

SpecAny == AnyInit /\ [][AnyNext]_vars

(***************************************************************************)
(* SpecColl: a TaskCollection used directly, as TestTaskCollection does.   *)
(* The task objects are those of the test (htw1, htw2, htwAll, htw3) and   *)
(* a second object with the content of htw1; every Add brings a fresh      *)
(* execution handle.                                                       *)
(***************************************************************************)
PoolHueId(r) ==
  CASE r % 5 = 1 -> 17 [] r % 5 = 2 -> 17 [] r % 5 = 3 -> 25
    [] r % 5 = 4 -> 50 [] OTHER -> 31

PoolLs(r) ==
  CASE r % 5 = 1 -> New({1, 3}) [] r % 5 = 2 -> New({1, 3}) [] r % 5 = 3 -> New({2})
    [] r % 5 = 4 -> All [] OTHER -> New({3, 4})

PoolTask(r) == HueTaskWrapper(r, [Id |-> PoolHueId(r), act |-> "long"], PoolLs(r))

TaskPool == {PoolTask(r) : r \in 1..NumTasks}

CNote(op, t, id, res, found) ==
  [op |-> op, t |-> t, id |-> id, pre |-> coll, res |-> res, found |-> found]

\* coll.Add(t, e) with a fresh execution e
CAdd(t) ==
  /\ collE <= MaxAdds
  /\ coll' = CollAdd(coll, t, collE)
  /\ collE' = collE + 1
  /\ clast' = CNote("Add", t, << >>, << >>, collE)

\* coll.Remove(t)
CRemove(t) ==
  /\ coll' = CollRemove(coll, t)
  /\ clast' = CNote("Remove", t, << >>, << >>, NilExec)
  /\ UNCHANGED collE

\* coll.Conflicts(t), t a task or nil
CConflicts(t) ==
  /\ clast' = CNote("Conflicts", t, << >>, CollConflicts(coll, t), NilExec)
  /\ UNCHANGED << coll, collE >>

\* coll.FindByTaskId(taskId)
CFind(taskId) ==
  /\ clast' = CNote("Find", NilTask, taskId, << >>, FindByTaskId(coll, taskId))
  /\ UNCHANGED << coll, collE >>

collOthers == << execVars, lightVars, stackVars, pureVars, rwmutex, cpc,
                moreVars >>

CollNext ==
  \/ \E t \in TaskPool : (CAdd(t) /\ UNCHANGED collOthers)
  \/ \E t \in TaskPool : (CRemove(t) /\ UNCHANGED collOthers)
  \/ \E t \in TaskPool \cup {NilTask} : (CConflicts(t) /\ UNCHANGED collOthers)
  \/ \E id \in {TaskId(t) : t \in TaskPool} \cup {AbsentId} :
       (CFind(id) /\ UNCHANGED collOthers)

SpecColl == Init /\ [][CollNext]_vars

(***************************************************************************)
(* SpecLock: goroutines calling one TaskCollection at the same time.  Each *)
(* call takes c.rwmutex, runs its body and releases the lock; the body of  *)
(* Add and of Remove reads c.tasks and then writes it.                     *)
(***************************************************************************)
\* the tasks handed over: two objects of equal content
LockTasks == {PoolTask(1), PoolTask(2)}

WriteOps == {"Add", "Remove"}
ReadOps == {"Conflicts", "Find", "Tasks"}

\* the positions of a goroutine between taking the lock and releasing it
Inside == {"locked", "read", "written"}

\* a Lock that does not wait
LockAtOnce(g) == TRUE

\* c.rwmutex.Lock() returns: nobody holds the lock
CanLock(g) == rwmutex.w = 0 /\ rwmutex.r = {}

\* c.rwmutex.RLock() returns: nobody holds the write lock
CanRLock(g) == rwmutex.w = 0

\* goroutine g calls c.Add(t, e) with a new execution e; there are as many
\* calls of Add as goroutines
LAdd(g, t) ==
  /\ cpc[g].op = "idle"
  /\ collE <= NumLockCallers
  /\ collE' = collE + 1
  /\ cpc' = [cpc EXCEPT ![g] = [IdleCall EXCEPT !.op = "Add", !.at = "call",
                                                 !.t = t, !.e = collE]]
  /\ UNCHANGED << coll, clast, rwmutex >>

\* goroutine g calls c.Remove(t), c.Conflicts(t), c.FindByTaskId(id) or
\* c.Tasks(&result)
LCall(g, op, t, id) ==
  /\ cpc[g].op = "idle"
  /\ cpc' = [cpc EXCEPT ![g] = [IdleCall EXCEPT !.op = op, !.at = "call",
                                                 !.t = t, !.id = id]]
  /\ UNCHANGED << coll, collE, clast, rwmutex >>

\* c.rwmutex.Lock()
LLock(g) ==
  /\ cpc[g].at = "call" /\ cpc[g].op \in WriteOps
  /\ CanLock(g)
  /\ rwmutex' = [rwmutex EXCEPT !.w = g]
  /\ cpc' = [cpc EXCEPT ![g].at = "locked"]
  /\ UNCHANGED << coll, collE, clast >>

\* c.rwmutex.RLock()
LRLock(g) ==
  /\ cpc[g].at = "call" /\ cpc[g].op \in ReadOps
  /\ CanRLock(g)
  /\ rwmutex' = [rwmutex EXCEPT !.r = @ \cup {g}]
  /\ cpc' = [cpc EXCEPT ![g].at = "locked"]
  /\ UNCHANGED << coll, collE, clast >>

\* Add and Remove read c.tasks
LWriterReads(g) ==
  /\ cpc[g].at = "locked" /\ cpc[g].op \in WriteOps
  /\ cpc' = [cpc EXCEPT ![g].at = "read", ![g].old = coll]
  /\ UNCHANGED << coll, collE, clast, rwmutex >>

\* Add and Remove assign c.tasks
LWriterWrites(g) ==
  /\ cpc[g].at = "read" /\ cpc[g].op \in WriteOps
  /\ coll' = IF cpc[g].op = "Add"
             THEN CollAdd(cpc[g].old, cpc[g].t, cpc[g].e)
             ELSE CollRemove(cpc[g].old, cpc[g].t)
  /\ cpc' = [cpc EXCEPT ![g].at = "written", ![g].old = << >>]
  /\ UNCHANGED << collE, clast, rwmutex >>

\* the body of Conflicts, FindByTaskId and Tasks
LReaderReads(g) ==
  /\ cpc[g].at = "locked" /\ cpc[g].op \in ReadOps
  /\ cpc' = [cpc EXCEPT ![g].at = "read",
                        ![g].res =
                          CASE cpc[g].op = "Conflicts" ->
                                 CollConflicts(coll, cpc[g].t)
                            [] cpc[g].op = "Find" ->
                                 << FindByTaskId(coll, cpc[g].id) >>
                            [] cpc[g].op = "Tasks" -> CollTasks(coll)]
  /\ UNCHANGED << coll, collE, clast, rwmutex >>

\* the deferred c.rwmutex.Unlock() or RUnlock(), and the return
LUnlock(g) ==
  /\ \/ cpc[g].at = "written"
     \/ cpc[g].at = "read" /\ cpc[g].op \in ReadOps
  /\ rwmutex' = IF cpc[g].op \in WriteOps THEN [rwmutex EXCEPT !.w = 0]
                ELSE [rwmutex EXCEPT !.r = @ \ {g}]
  /\ cpc' = [cpc EXCEPT ![g] = IdleCall]
  /\ UNCHANGED << coll, collE, clast >>

lockOthers == << execVars, lightVars, stackVars, pureVars, moreVars >>

LockNext ==
  \/ \E g \in LockCallers, t \in LockTasks : (LAdd(g, t) /\ UNCHANGED lockOthers)
  \/ \E g \in LockCallers, t \in LockTasks :
       (LCall(g, "Remove", t, << >>) /\ UNCHANGED lockOthers)
  \/ \E g \in LockCallers, t \in {PoolTask(1), NilTask} :
       (LCall(g, "Conflicts", t, << >>) /\ UNCHANGED lockOthers)
  \/ \E g \in LockCallers, id \in {TaskId(PoolTask(1))} :
       (LCall(g, "Find", NilTask, id) /\ UNCHANGED lockOthers)
  \/ \E g \in LockCallers : (LCall(g, "Tasks", NilTask, << >>) /\ UNCHANGED lockOthers)
  \/ \E g \in LockCallers : (LLock(g) /\ UNCHANGED lockOthers)
  \/ \E g \in LockCallers : (LRLock(g) /\ UNCHANGED lockOthers)
  \/ \E g \in LockCallers : (LWriterReads(g) /\ UNCHANGED lockOthers)
  \/ \E g \in LockCallers : (LWriterWrites(g) /\ UNCHANGED lockOthers)
  \/ \E g \in LockCallers : (LReaderReads(g) /\ UNCHANGED lockOthers)
  \/ \E g \in LockCallers : (LUnlock(g) /\ UNCHANGED lockOthers)

SpecLock == Init /\ [][LockNext]_vars

(***************************************************************************)
(* SpecLights: the operations of lights.Set applied to two light sets, as  *)
(* the tests of package lights do.  The sets are Go maps over the lights   *)
(* 1..MaxLight and 10, entries holding false included, and the nil map.    *)
(***************************************************************************)
\* the light ids the sets are built from: one of them has two digits
LightIds == (1..MaxLight) \cup {ExtraLight}

\* the values a lights.Set can have over these ids
LightSets ==
  {All} \cup
  {[isNil |-> FALSE, m |-> f] :
     f \in UNION {[D -> BOOLEAN] : D \in SUBSET LightIds}}

lightOthers == << execVars, collVars, stackVars, pureVars, moreVars >>

LightsInit ==
  /\ ExecInit /\ refCap = MaxStarts /\ CollInit /\ StackNew(TRUE) /\ PureIdle
  /\ la \in LightSets
  /\ lb \in LightSets
  /\ lop = "none"
  /\ lres = FALSE

\* la.OverlapsWith(lb)
ApplyOverlapsWith ==
  /\ lop' = "OverlapsWith"
  /\ lres' = OverlapsWith(la, lb)
  /\ UNCHANGED << la, lb >>

\* la.Intersect(lb)
ApplyIntersect ==
  /\ lop' = "Intersect"
  /\ lres' = Intersect(la, lb)
  /\ UNCHANGED << la, lb >>

\* la.Add(lb)
ApplyAdd ==
  /\ lop' = "Add"
  /\ lres' = Add(la, lb)
  /\ UNCHANGED << la, lb >>

\* la.Subtract(lb)
ApplySubtract ==
  /\ lop' = "Subtract"
  /\ lres' = Subtract(la, lb)
  /\ UNCHANGED << la, lb >>

LightsNext ==
  \/ (ApplyOverlapsWith /\ UNCHANGED lightOthers)
  \/ (ApplyIntersect /\ UNCHANGED lightOthers)
  \/ (ApplyAdd /\ UNCHANGED lightOthers)
  \/ (ApplySubtract /\ UNCHANGED lightOthers)

SpecLights == LightsInit /\ [][LightsNext]_vars

(***************************************************************************)
(* SpecText: Parse applied to short texts, and String followed by Parse    *)
(* applied to light sets, as TestParseLights and TestFormatLights do.      *)
(***************************************************************************)
\* the characters of the texts: digits, the separator, a space, the signs
\* and two letters
TextChars == {"0", "1", "2", ",", " ", "-", "+", "A", "l"}

\* the texts of at most MaxTextLen characters
Texts == UNION {[1..n -> TextChars] : n \in 0..MaxTextLen}

pureOthers == << execVars, collVars, lightVars, stackVars, moreVars >>

\* every function of the other parts at rest
RestIdle ==
  /\ ExecInit /\ refCap = MaxStarts /\ CollInit /\ LightsIdle /\ StackNew(TRUE)

TextInit ==
  /\ RestIdle
  /\ fin \in {[kind |-> "text", text |-> t] : t \in Texts}
          \cup {[kind |-> "set", set |-> l] : l \in LightSets}
  /\ fop = "none"
  /\ fout = FALSE

\* lights.Parse(text)
ApplyParse ==
  /\ fin.kind = "text"
  /\ fop' = "Parse"
  /\ fout' = Parse(fin.text)
  /\ UNCHANGED fin

\* lights.Parse(l.String())
ApplyStringParse ==
  /\ fin.kind = "set"
  /\ fop' = "StringParse"
  /\ fout' = [text |-> String(fin.set), parsed |-> Parse(String(fin.set))]
  /\ UNCHANGED fin

TextNext ==
  \/ (ApplyParse /\ UNCHANGED pureOthers)
  \/ (ApplyStringParse /\ UNCHANGED pureOthers)

SpecText == TextInit /\ [][TextNext]_vars

(***************************************************************************)
(* SpecSame: each operation of lights.Set applied to two light sets and to *)
(* the same sets built without their entries holding false.                *)
(***************************************************************************)
SetOps == {"IsNone", "IsAll", "OverlapsWith", "Intersect", "Subtract", "Add",
           "MutableAdd", "Slice", "String"}

\* a.op(b), or a.op() for the operations without argument
SetOp(op, a, b) ==
  CASE op = "IsNone"       -> IsNone(a)
    [] op = "IsAll"        -> IsAll(a)
    [] op = "OverlapsWith" -> OverlapsWith(a, b)
    [] op = "Intersect"    -> Intersect(a, b)
    [] op = "Subtract"     -> Subtract(a, b)
    [] op = "Add"          -> Add(a, b)
    [] op = "MutableAdd"   -> MutableAdd(a, b)
    [] op = "Slice"        -> Slice(a)
    [] op = "String"       -> String(a)

\* the set built from the lights of l alone: lights.New(ids...), or All
WithoutFalse(l) == IF l.isNil THEN All ELSE New(Members(l))

SameInit ==
  /\ RestIdle
  /\ fin \in {[kind |-> "same", a |-> a, b |-> b] :
               a \in LightSets, b \in LightSets}
  /\ fop = "none"
  /\ fout = FALSE

\* the operation on the sets as they are and on the sets without false
ApplyToBoth(op) ==
  /\ fin.kind = "same"
  /\ fop' = op
  /\ fout' = [with |-> SetOp(op, fin.a, fin.b),
              without |-> SetOp(op, WithoutFalse(fin.a), WithoutFalse(fin.b))]
  /\ UNCHANGED fin

SameNext ==
  \/ \E op \in SetOps : (ApplyToBoth(op) /\ UNCHANGED pureOthers)

SpecSame == SameInit /\ [][SameNext]_vars

(***************************************************************************)
(* SpecShare: the operations of lights.Set on maps that live in a heap.  A *)
(* Set value is a reference to a map, or nil; two values that hold the     *)
(* same reference share the map, and a write through one shows in the      *)
(* other.  heap gives the map at each address; the variable None holds the *)
(* reference NoneRef.                                                      *)
(***************************************************************************)
\* var All Set = nil
NilRef == 0

\* var None = make(Set, 0): the address of that map
NoneRef == 1

\* the Set value behind a reference
Deref(h, p) == IF p = NilRef THEN All ELSE [isNil |-> FALSE, m |-> h[p]]

\* make(Set, n): a new map at an address not in use, holding what s holds
Alloc(h, s) ==
  LET p == Cardinality(DOMAIN h) + 1
  IN  [heap |-> [q \in DOMAIN h \cup {p} |-> IF q = p THEN s.m ELSE h[q]],
       ref |-> p]

\* what a call leaves behind: the heap, and a Set reference, another value
\* (bool, slice, string) or a panic
Returned(h, kind, val) == [heap |-> h, kind |-> kind, val |-> val]

IntersectAt(h, l, other) ==
  IF l = NilRef THEN Returned(h, "set", other)
  ELSE IF other = NilRef THEN Returned(h, "set", l)
  ELSE LET a == Alloc(h, Intersect(Deref(h, l), Deref(h, other)))
       IN  Returned(a.heap, "set", a.ref)

SubtractAt(h, l, other) ==
  IF l = NilRef THEN Returned(h, "panic", NilRef)
  ELSE IF other = NilRef THEN Returned(h, "set", NoneRef)
  ELSE LET a == Alloc(h, Subtract(Deref(h, l), Deref(h, other)))
       IN  Returned(a.heap, "set", a.ref)

\* for i := range other { if other[i] { l[i] = true } }; return l
MutableAddAt(h, l, other) ==
  IF IsPanic(MutableAdd(Deref(h, l), Deref(h, other)))
  THEN Returned(h, "panic", NilRef)
  ELSE IF l = NilRef THEN Returned(h, "set", l)
  ELSE Returned([h EXCEPT ![l] = MutableAdd(Deref(h, l), Deref(h, other)).m],
                "set", l)

\* an Add that adds to its receiver
AddAtInPlace(h, l, other) ==
  IF l = NilRef \/ other = NilRef THEN Returned(h, "set", NilRef)
  ELSE MutableAddAt(h, l, other)

\* result := make(Set, ...); return result.MutableAdd(l).MutableAdd(other)
AddAt(h, l, other) ==
  IF l = NilRef \/ other = NilRef THEN Returned(h, "set", NilRef)
  ELSE LET a == Alloc(h, New({}))
           b == MutableAddAt(a.heap, a.ref, l)
       IN  MutableAddAt(b.heap, b.val, other)

\* one call of an operation of Set on the heap
SetOpAt(op, h, l, other) ==
  CASE op = "Intersect" -> IntersectAt(h, l, other)
    [] op = "Subtract" -> SubtractAt(h, l, other)
    [] op = "Add" -> AddAt(h, l, other)
    [] op = "MutableAdd" -> MutableAddAt(h, l, other)
    [] OTHER -> Returned(h, "value", SetOp(op, Deref(h, l), Deref(h, other)))

\* the maps a test builds by hand or with New over the lights 1..MaxLight
HeapMaps == UNION {[D -> BOOLEAN] : D \in SUBSET (1..MaxLight)}

\* None and two more maps are in the heap; the operands are nil, None or
\* one of the two, and may be the same map
ShareInit ==
  /\ RestIdle
  /\ fin \in {[kind |-> "share",
              heap |-> [p \in 1..3 |-> IF p = NoneRef THEN EmptyMap
                                        ELSE IF p = 2 THEN m2 ELSE m3],
              l |-> l, other |-> other] :
                m2, m3 \in HeapMaps, l, other \in {NilRef, NoneRef, 2, 3}}
  /\ fop = "none"
  /\ fout = FALSE

ApplyAt(op) ==
  /\ fin.kind = "share"
  /\ fop' = op
  /\ fout' = SetOpAt(op, fin.heap, fin.l, fin.other)
  /\ UNCHANGED fin

ShareNext ==
  \/ \E op \in SetOps : (ApplyAt(op) /\ UNCHANGED pureOthers)

SpecShare == ShareInit /\ [][ShareNext]_vars

(***************************************************************************)
(* SpecIds: TaskId applied to two task wrappers, as TestTimerTaskWrapper   *)
(* and TestTaskCollection do.                                              *)
(***************************************************************************)
\* hue task ids of one and of two digits
KeyIds == {1, 11}

\* start times: two instants of one second, and a second of two digits
KeyTimes == {TicksPerSecond, TicksPerSecond + 1, 11 * TicksPerSecond}

\* light sets, some of them the same set in different maps
KeySets ==
  {All, None, New({1}), New({2}), New({1, 2}), New({1, ExtraLight}),
   [isNil |-> FALSE, m |-> [i \in {1, 2} |-> i = 1]],
   [isNil |-> FALSE, m |-> [i \in {1} |-> FALSE]]}

\* the wrappers with object address ref
KeyTasks(ref) ==
  {HueTaskWrapper(ref, [Id |-> id, act |-> "long"], ls) :
     id \in KeyIds, ls \in KeySets}
  \cup
  {TimerTaskWrapper(ref, [Id |-> id, act |-> "long"], ls, st) :
     id \in KeyIds, ls \in KeySets, st \in KeyTimes}

IdsInit ==
  /\ RestIdle
  /\ fin \in {[kind |-> "tasks", a |-> a, b |-> b] :
               a \in KeyTasks(1), b \in KeyTasks(2)}
  /\ fop = "none"
  /\ fout = FALSE

\* a.TaskId() and b.TaskId()
ApplyTaskId ==
  /\ fin.kind = "tasks"
  /\ fop' = "TaskId"
  /\ fout' = [a |-> TaskId(fin.a), b |-> TaskId(fin.b)]
  /\ UNCHANGED fin

IdsNext ==
  \/ (ApplyTaskId /\ UNCHANGED pureOthers)

SpecIds == IdsInit /\ [][IdsNext]_vars

(***************************************************************************)
(* SpecLeft: TimeLeftStr of one timer task asked again and again as the    *)
(* time goes by, as TestTimerTaskWrapper does.                             *)
(***************************************************************************)
\* the start times of the timer: on a second and inside one
LeftTimes == {MaxHoursLeft * Hour + Second, MaxHoursLeft * Hour + Second + 1}

\* how much later the next call is
LeftSteps == {0, 1, Second, Minute}

\* the last instant asked for lies this long after the start time
LeftPast == 2 * Second

LeftInit ==
  /\ RestIdle
  /\ fin \in {[kind |-> "left",
                t |-> TimerTaskWrapper(1, [Id |-> 1, act |-> "long"], All, st),
                now |-> 0] : st \in LeftTimes}
  /\ fop = "none"
  /\ fout = FALSE

\* t.TimeLeftStr(n)
ApplyTimeLeftStr(n) ==
  /\ fin.kind = "left"
  /\ n <= fin.t.StartTime + LeftPast
  /\ fin' = [fin EXCEPT !.now = n]
  /\ fop' = "TimeLeftStr"
  /\ fout' = [now |-> n, text |-> TimeLeftStr(fin.t, n)]

LeftNext ==
  \/ \E k \in LeftSteps : (ApplyTimeLeftStr(fin.now + k) /\ UNCHANGED pureOthers)

SpecLeft == LeftInit /\ [][LeftNext]_vars

(***************************************************************************)
(* SpecFuture: FutureTime asked at some instants in some time zones, as    *)
(* TestFutureTime does in the local zone.                                  *)
(***************************************************************************)
\* the zones: UTC, one of a fixed offset, one that sets its clocks back an
\* hour and one that sets them forward an hour in the night of the fourth day
FutureZones ==
  {[at |-> 0, before |-> 0, after |-> 0],
   [at |-> 0, before |-> 5 * Hour + 30 * Minute, after |-> 5 * Hour + 30 * Minute],
   [at |-> 3 * Day + 9 * Hour, before |-> 0 - 7 * Hour, after |-> 0 - 8 * Hour],
   [at |-> 3 * Day + 10 * Hour, before |-> 0 - 8 * Hour, after |-> 0 - 7 * Hour]}

\* the instants asked at: 16:43 UTC of the second day, 23:43 UTC of the third
\* day (the afternoon before the clocks change) and 9:10 UTC of the fourth
\* (the night of the change), each on the minute, a tick later and a tick
\* before the next minute
FutureNows ==
  {b + e : b \in {Day + 16 * Hour + 43 * Minute,
                  2 * Day + 23 * Hour + 43 * Minute,
                  3 * Day + 9 * Hour + 10 * Minute},
           e \in {0, 1, Minute - 1}}

FutureInit ==
  /\ RestIdle
  /\ fin \in {[kind |-> "future", now |-> n, loc |-> loc,
                hour |-> hour, minute |-> minute] :
               n \in FutureNows, loc \in FutureZones,
               hour \in 0..23, minute \in 0..59}
  /\ fop = "none"
  /\ fout = FALSE

\* FutureTime(now, hour, minute)
ApplyFutureTime ==
  /\ fin.kind = "future"
  /\ fop' = "FutureTime"
  /\ fout' = [hour |-> fin.hour, minute |-> fin.minute,
              result |-> FutureTime(fin.now, fin.loc, fin.hour, fin.minute)]
  /\ UNCHANGED fin

FutureNext ==
  \/ (ApplyFutureTime /\ UNCHANGED pureOthers)

SpecFuture == FutureInit /\ [][FutureNext]_vars

(***************************************************************************)
(* SpecStack: a Stack, its loop goroutine, the goroutines calling Push and *)
(* Pop, and the tasks of Base and Extra, which change the look of the      *)
(* lights while they run.                                                  *)
(***************************************************************************)
stackOthers == << execVars, collVars, lightVars, pureVars, moreVars >>

\* Push, first line: s.first <- empty blocks until the loop receives
Push(c) ==
  /\ spc[c].op = "idle"
  /\ spc' = [spc EXCEPT ![c] = [op |-> "Push", ch |-> "first"]]
  /\ UNCHANGED << stack, mex, look >>

\* Pop, first line: s.third <- empty blocks until the loop receives
Pop(c) ==
  /\ spc[c].op = "idle"
  /\ spc' = [spc EXCEPT ![c] = [op |-> "Pop", ch |-> "third"]]
  /\ UNCHANGED << stack, mex, look >>

\* a loop that takes a request from either channel wherever it waits
ReceivesEither(at, ch) == at \in {"first", "third"} /\ ch \in {"first", "third"}

\* a loop that takes a Push wherever it waits
ReceivesPushAnywhere(at, ch) ==
  at \in {"first", "third"} /\ (ch = at \/ ch = "first")

\* the loop, waiting at <-s.first or at <-s.third, receives on that channel
Receives(at, ch) == at \in {"first", "third"} /\ ch = at

\* <-s.first and <-s.third in the loop: the send of caller c goes through,
\* and c goes on to wait for its acknowledgement
loopReceive(c) ==
  /\ spc[c].ch \in {"first", "third"}
  /\ Receives(stack.at, spc[c].ch)
  /\ spc' = [spc EXCEPT ![c].ch = IF spc[c].op = "Push" THEN "second" ELSE "fourth"]
  /\ stack' = [stack EXCEPT
                 !.at = IF stack.at = "first" THEN "pauseBase" ELSE "pauseExtra",
                 !.from = c,
                 !.accepted = spc[c].op,
                 !.done = IF stack.at = "first" THEN << >> ELSE @,
                 !.err = IF stack.at = "first" THEN FALSE ELSE @,
                 !.cycle = IF stack.at = "first" THEN (@ + 1) % NumCycles ELSE @]
  /\ UNCHANGED << mex, look >>

\* the executor the loop pauses or resumes at a position
ExecutorAt(at) ==
  IF at \in {"pauseBase", "pauseBaseWait", "resumeBase"} THEN "Base" ELSE "Extra"

\* a loop whose calls of Pause leave the executor as it is
loopPauseNoEffect ==
  /\ stack.at \in {"pauseBase", "pauseExtra"}
  /\ stack' = [stack EXCEPT
                 !.at = IF stack.at = "pauseBase" THEN "pauseBaseWait"
                        ELSE "pauseExtraWait"]
  /\ UNCHANGED << spc, mex, look >>

\* s.Base.Pause() and s.Extra.Pause() are called: the executor is paused
loopPause ==
  /\ stack.at \in {"pauseBase", "pauseExtra"}
  /\ mex' = [mex EXCEPT ![ExecutorAt(stack.at)].paused = TRUE]
  /\ stack' = [stack EXCEPT
                 !.at = IF stack.at = "pauseBase" THEN "pauseBaseWait"
                        ELSE "pauseExtraWait"]
  /\ UNCHANGED << spc, look >>

\* a Pause that returns without waiting for the tasks
StoppedOrNot(x) == TRUE

\* MultiExecutor.Pause: "waiting for all tasks to actually stop"
AllStopped(x) == mex[x].active = 0

\* s.Base.Pause() and s.Extra.Pause() return
loopPaused ==
  /\ stack.at \in {"pauseBaseWait", "pauseExtraWait"}
  /\ AllStopped(ExecutorAt(stack.at))
  /\ stack' = [stack EXCEPT
                 !.at = IF stack.at = "pauseBaseWait" THEN "snapshot" ELSE "restore",
                 !.done = Append(@, IF stack.at = "pauseBaseWait" THEN "PauseBase"
                                    ELSE "PauseExtra")]
  /\ UNCHANGED << spc, mex, look >>

\* ops.Snapshot(s.context, s.AllLights): the look of the lights, or nil with
\* an error
Snapshot(ok) == IF ok THEN Colors(look) ELSE NilColors

\* a loop that returns when Snapshot fails
StopsOnError(err) == IF err THEN "stopped" ELSE "resumeExtra"

\* if err != nil { s.slog.Printf(...) }: the loop goes on to s.Extra.Resume()
AfterSnapshot(err) == "resumeExtra"

\* lightColors, err := ops.Snapshot(s.context, s.AllLights)
loopSnapshot ==
  /\ stack.at = "snapshot"
  /\ \E ok \in BOOLEAN :
       stack' = [stack EXCEPT
                  !.at = AfterSnapshot(~ok),
                  !.lightColors = Snapshot(ok),
                  !.err = ~ok,
                  !.hadErr = @ \/ ~ok,
                  !.taken = stack.cycle,
                  !.uses = 0,
                  !.done = Append(@, "Snapshot")]
  /\ UNCHANGED << spc, mex, look >>

\* s.Extra.Resume() and s.Base.Resume()
loopResume ==
  /\ stack.at \in {"resumeExtra", "resumeBase"}
  /\ mex' = [mex EXCEPT ![ExecutorAt(stack.at)].paused = FALSE]
  /\ stack' = [stack EXCEPT
                 !.at = IF stack.at = "resumeExtra" THEN "second" ELSE "fourth",
                 !.done = Append(@, IF stack.at = "resumeExtra" THEN "ResumeExtra"
                                    ELSE "ResumeBase")]
  /\ UNCHANGED << spc, look >>

\* a loop that, after s.fourth <- empty, waits for the next Pop with the
\* lightColors it holds
loopSendThenPopAgain(c) ==
  /\ stack.at \in {"second", "fourth"}
  /\ spc[c].ch = stack.at
  /\ spc' = [spc EXCEPT ![c] = IdleCaller]
  /\ stack' = [stack EXCEPT !.at = "third"]
  /\ UNCHANGED << mex, look >>

\* s.second <- empty and s.fourth <- empty meet <-s.second in Push and
\* <-s.fourth in Pop: caller c returns.  After s.fourth the body of the for
\* loop ends, and lightColors with it.
loopSend(c) ==
  /\ stack.at \in {"second", "fourth"}
  /\ spc[c].ch = stack.at
  /\ spc' = [spc EXCEPT ![c] = IdleCaller]
  /\ stack' = [stack EXCEPT
                 !.at = IF stack.at = "second" THEN "third" ELSE "first",
                 !.lightColors = IF stack.at = "second" THEN @ ELSE NilColors]
  /\ UNCHANGED << mex, look >>

\* a loop that runs no restoration
NeverRestores(lightColors) == FALSE

\* if lightColors != nil
HasSnapshot(lightColors) == ~lightColors.isNil

\* ops.StaticHueAction(lightColors).Do on s.AllLights: the lights get the
\* look of the snapshot, or the action fails and they stay as they are
Restored(lightColors, ok) == IF ok THEN lightColors.look ELSE look

\* if lightColors != nil { err = tasks.Run(...); if err != nil { log } }
loopRestore ==
  /\ stack.at = "restore"
  /\ IF HasSnapshot(stack.lightColors)
     THEN /\ \E ok \in BOOLEAN : look' = Restored(stack.lightColors, ok)
          /\ stack' = [stack EXCEPT !.at = "resumeBase",
                                    !.uses = @ + 1,
                                    !.done = Append(@, "Restore")]
     ELSE /\ look' = look
          /\ stack' = [stack EXCEPT !.at = "resumeBase"]
  /\ UNCHANGED << spc, mex >>

\* a task of executor x runs: only while x is not paused
TaskRuns(x) ==
  /\ ~mex[x].paused
  /\ mex[x].active < MaxRunning
  /\ mex' = [mex EXCEPT ![x].active = @ + 1]
  /\ UNCHANGED << stack, spc, look >>

\* a running task of executor x stops: it ends, or it is held by the pause
TaskStops(x) ==
  /\ mex[x].active > 0
  /\ mex' = [mex EXCEPT ![x].active = @ - 1]
  /\ UNCHANGED << stack, spc, look >>

\* a running task of executor x gives the lights the look n
TaskSetsLights(x, n) ==
  /\ mex[x].active > 0
  /\ n # look
  /\ look' = n
  /\ UNCHANGED << stack, spc, mex >>

StackInit ==
  /\ ExecInit /\ refCap = MaxStarts /\ CollInit /\ LightsIdle /\ PureIdle
  /\ \E extraPaused \in BOOLEAN : StackNew(extraPaused)

StackNext ==
  \/ \E c \in StackCallers : (Push(c) /\ UNCHANGED stackOthers)
  \/ \E c \in StackCallers : (Pop(c) /\ UNCHANGED stackOthers)
  \/ \E c \in StackCallers : (loopReceive(c) /\ UNCHANGED stackOthers)
  \/ (loopPause /\ UNCHANGED stackOthers)
  \/ (loopPaused /\ UNCHANGED stackOthers)
  \/ (loopSnapshot /\ UNCHANGED stackOthers)
  \/ (loopResume /\ UNCHANGED stackOthers)
  \/ \E c \in StackCallers : (loopSend(c) /\ UNCHANGED stackOthers)
  \/ (loopRestore /\ UNCHANGED stackOthers)
  \/ \E x \in {"Base", "Extra"} : (TaskRuns(x) /\ UNCHANGED stackOthers)
  \/ \E x \in {"Base", "Extra"} : (TaskStops(x) /\ UNCHANGED stackOthers)
  \/ \E x \in {"Base", "Extra"}, n \in 0..MaxLook :
       (TaskSetsLights(x, n) /\ UNCHANGED stackOthers)

SpecStack == StackInit /\ [][StackNext]_vars

\* the Stack is created with Extra paused, as its use requires: Push resumes
\* Extra and Pop pauses it again
ExtraPausedInit == StackInit /\ mex.Extra.paused

SpecStackExtraPaused == ExtraPausedInit /\ [][StackNext]_vars

(***************************************************************************)
(* SpecLog: executions of HueTaskWrapper.Do started by MultiExecutor.Start,*)
(* with or without a logger, while the action sets an error or not and     *)
(* another goroutine ends the execution or not.  The executions share the  *)
(* log of the executor.                                                    *)
(***************************************************************************)
logOthers == << execVars, collVars, lightVars, stackVars, pureVars, cache,
               chans, ccall >>

\* a log record: what Printf wrote and for which execution
Record(kind, r) == [kind |-> kind, run |-> r]

\* m.me.Start(&HueTaskWrapper{..., log: m.hlog}): the library starts a
\* goroutine for Do and Start returns the execution to its caller
StartDo(r, log) ==
  /\ wrun[r].at = "none"
  /\ wrun' = [wrun EXCEPT ![r] = [at |-> "Do", log |-> log, err |-> FALSE,
                                  ended |-> FALSE, got |-> "Execution"]]
  /\ UNCHANGED hlog

\* if t.log == nil { t.H.Do(...); return }; t.log.Printf("START: %s", t)
DoBegins(r) ==
  /\ wrun[r].at = "Do"
  /\ IF wrun[r].log
     THEN /\ hlog' = Append(hlog, Record("START", r))
          /\ wrun' = [wrun EXCEPT ![r].at = "H.Do"]
     ELSE /\ hlog' = hlog
          /\ wrun' = [wrun EXCEPT ![r].at = "H.Do, no log"]

\* t.H.Do(t.c, t.Ls, e): the action calls e.SetError(err)
ActionSetsError(r) ==
  /\ wrun[r].at \in {"H.Do", "H.Do, no log"}
  /\ ~wrun[r].err
  /\ wrun' = [wrun EXCEPT ![r].err = TRUE]
  /\ UNCHANGED hlog

\* e.End() called by Stop, by a conflicting Start or by Pause, at any time
\* after Start returned the execution
ExecutionEnded(r) ==
  /\ wrun[r].at # "none"
  /\ ~wrun[r].ended
  /\ wrun' = [wrun EXCEPT ![r].ended = TRUE]
  /\ UNCHANGED hlog

\* t.H.Do(t.c, t.Ls, e) returns
ActionReturns(r) ==
  /\ wrun[r].at \in {"H.Do", "H.Do, no log"}
  /\ wrun' = [wrun EXCEPT ![r].at = IF wrun[r].at = "H.Do" THEN "outcome"
                                    ELSE "returned"]
  /\ UNCHANGED hlog

\* an outcome that looks at the cancellation first
OutcomeEndedFirst(err, isEnded) ==
  IF isEnded THEN "INTERRUPTED" ELSE IF err THEN "ERROR" ELSE "FINISH"

\* if err := e.Error(); err != nil {...} else if e.IsEnded() {...} else {...}
Outcome(err, isEnded) ==
  IF err THEN "ERROR" ELSE IF isEnded THEN "INTERRUPTED" ELSE "FINISH"

\* the Printf of the outcome, and Do returns
DoLogsOutcome(r) ==
  /\ wrun[r].at = "outcome"
  /\ hlog' = Append(hlog, Record(Outcome(wrun[r].err, wrun[r].ended), r))
  /\ wrun' = [wrun EXCEPT ![r].at = "returned"]

LogNext ==
  \/ \E r \in Runs, log \in BOOLEAN : (StartDo(r, log) /\ UNCHANGED logOthers)
  \/ \E r \in Runs : (DoBegins(r) /\ UNCHANGED logOthers)
  \/ \E r \in Runs : (ActionSetsError(r) /\ UNCHANGED logOthers)
  \/ \E r \in Runs : (ExecutionEnded(r) /\ UNCHANGED logOthers)
  \/ \E r \in Runs : (ActionReturns(r) /\ UNCHANGED logOthers)
  \/ \E r \in Runs : (DoLogsOutcome(r) /\ UNCHANGED logOthers)

SpecLog == Init /\ [][LogNext]_vars

(***************************************************************************)
(* SpecCache: goroutines calling Set, Get and Close on one weather.Cache   *)
(* and waiting on the channels Get gave them.  set runs under c.lock; the  *)
(* close of the channel it returns runs after the lock is released.  A     *)
(* close of a closed or nil channel panics, and the panic ends the         *)
(* program.                                                                *)
(***************************************************************************)
cacheOthers == << execVars, collVars, lightVars, stackVars, pureVars, wrun,
                 hlog >>

\* the temperatures TestCache sets
Observations == {30, 35}

\* no goroutine has panicked
Running == \A g \in CacheCallers : ccall[g].at # "panic"

\* c.set(observation, stale) under c.lock, called by Set and by Close: the
\* goroutine goes on to close the channel that was c.stale
set(g, op, observation, stale) ==
  /\ cache' = [observation |-> observation, stale |-> stale]
  /\ ccall' = [ccall EXCEPT ![g] = [at |-> "close", op |-> op,
                                    o |-> observation, ch |-> cache.stale]]

\* Set: c.set(observation, make(chan struct{}))
CacheSet(g, observation) ==
  /\ Running
  /\ ccall[g].at = "idle"
  /\ Cardinality(DOMAIN chans) <= MaxSets
  /\ LET n == Cardinality(DOMAIN chans) + 1
     IN  /\ chans' = [k \in DOMAIN chans \cup {n} |->
                        IF k = n THEN "open" ELSE chans[k]]
         /\ set(g, "Set", observation, n)

\* Close: c.set(nil, nil)
CacheClose(g) ==
  /\ Running
  /\ ccall[g].at = "idle"
  /\ chans' = chans
  /\ set(g, "Close", NilObservation, NilChan)

\* close(ch): panics on a nil channel and on a closed one
CloseChan(ch) ==
  IF ch = NilChan \/ chans[ch] = "closed" THEN "panic" ELSE "closed"

\* close(...) in Set and in Close, with the channel set returned
CacheCloses(g) ==
  /\ Running
  /\ ccall[g].at = "close"
  /\ IF CloseChan(ccall[g].ch) = "panic"
     THEN /\ ccall' = [ccall EXCEPT ![g].at = "panic"]
          /\ chans' = chans
     ELSE /\ ccall' = [ccall EXCEPT ![g] = IdleCacheCall]
          /\ chans' = [chans EXCEPT ![ccall[g].ch] = "closed"]
  /\ cache' = cache

\* Get, under c.lock: return c.observation, c.stale
CacheGet(g) ==
  /\ Running
  /\ ccall[g].at = "idle"
  /\ ccall' = [ccall EXCEPT ![g] = [at |-> "got", op |-> "Get",
                                    o |-> cache.observation,
                                    ch |-> cache.stale]]
  /\ UNCHANGED << cache, chans >>

\* <-stale in a client: the receive returns once the channel is closed; on a
\* nil channel it never does
ClientNotified(g) ==
  /\ Running
  /\ ccall[g].at = "got"
  /\ ccall[g].ch # NilChan
  /\ chans[ccall[g].ch] = "closed"
  /\ ccall' = [ccall EXCEPT ![g] = IdleCacheCall]
  /\ UNCHANGED << cache, chans >>

\* a client that does not wait on the channel Get gave it
ClientLeaves(g) ==
  /\ Running
  /\ ccall[g].at = "got"
  /\ ccall' = [ccall EXCEPT ![g] = IdleCacheCall]
  /\ UNCHANGED << cache, chans >>

CacheNext ==
  \/ \E g \in CacheCallers, o \in Observations :
       (CacheSet(g, o) /\ UNCHANGED cacheOthers)
  \/ \E g \in CacheCallers : (CacheClose(g) /\ UNCHANGED cacheOthers)
  \/ \E g \in CacheCallers : (CacheCloses(g) /\ UNCHANGED cacheOthers)
  \/ \E g \in CacheCallers : (CacheGet(g) /\ UNCHANGED cacheOthers)
  \/ \E g \in CacheCallers : (ClientNotified(g) /\ UNCHANGED cacheOthers)
  \/ \E g \in CacheCallers : (ClientLeaves(g) /\ UNCHANGED cacheOthers)

SpecCache == Init /\ [][CacheNext]_vars

(***************************************************************************)
(* Properties.                                                             *)
(* Light sets are read here as sets of lights: a set drives a light if it  *)
(* is All or holds the light, and two sets share a light if some light is  *)
(* driven by both.                                                         *)
(***************************************************************************)
DrivesAny(ls) == ls.isNil \/ \E i \in DOMAIN ls.m : ls.m[i]

SharesLight(a, b) ==
  \/ a.isNil /\ DrivesAny(b)
  \/ b.isNil /\ DrivesAny(a)
  \/ \E i \in DOMAIN a.m \cap DOMAIN b.m : a.m[i] /\ b.m[i]

\* the executions of the running tasks whose light set shares a light with ls
RunningOn(ls) ==
  {reg[i].e : i \in {k \in 1..Len(reg) : SharesLight(reg[k].t.Ls, ls)}}

\* who may call Start: a direct caller or a high-priority scheduled task
StartOrigins == {"call", "high"}

\* C1: in every reachable state of the executor no two tasks of its registry
\* have light sets that share a light.
NoTwoRunningShareALight ==
  \A i, j \in 1..Len(reg) :
    i # j => ~SharesLight(reg[i].t.Ls, reg[j].t.Ls)

\* three tasks run side by side
ThreeRunSideBySide == Len(reg) >= 3

\* C2 as stated: a Start with a non-none used light set ends no running task
\* and does not wait: the registry after the step is the registry before it
\* followed by the new task.
StartNeverWaitsNorCancels ==
  [][\A c \in Callers, from \in StartOrigins, h \in HueTasks, ls \in Requests :
       (/\ pc[c].op = "idle"
        /\ last'.via = "Start"
        /\ last'.from = from
        /\ ~IsNone(UsedLights(h, ls))
        /\ Start(c, from, h, ls))
         => /\ ended' = ended
            /\ Len(reg') = Len(reg) + 1
            /\ SubSeq(reg', 1, Len(reg)) = reg
            /\ reg'[Len(reg')].t.Ls = UsedLights(h, ls)]_vars

\* C2 amended: a Start with a non-none used light set ends exactly the
\* running tasks whose light set shares a light with the used set; with none
\* to end it registers the new task at once, otherwise it waits, and the
\* new task is registered once no such task is left in the registry.  The
\* other running tasks are neither ended nor removed.
StartEndsExactlyTheOverlapping ==
  [][/\ \A c \in Callers, from \in StartOrigins, h \in HueTasks, ls \in Requests :
          (/\ pc[c].op = "idle"
           /\ last'.via = "Start"
           /\ last'.from = from
           /\ ~IsNone(UsedLights(h, ls))
           /\ Start(c, from, h, ls))
            => LET used == UsedLights(h, ls)
               IN  /\ ended' = ended \cup RunningOn(used)
                   /\ IF RunningOn(used) = {}
                      THEN /\ reg' = Append(reg, [t |-> HueTaskWrapper(nextRef, h, used),
                                                  e |-> nextRef])
                           /\ pc'[c].op = "idle"
                      ELSE /\ reg' = reg
                           /\ pc'[c].op = "Start"
     /\ MEStartDone("exec")
          => /\ RunningOn(starting.exec.t.Ls) = {}
             /\ reg' = Append(reg, [t |-> starting.exec.t, e |-> starting.exec.t.ref])
             /\ ended' = ended]_vars

\* a Start that had to wait has registered its task beside a task it left alone
PreemptingStartDone ==
  /\ last.op = "StartDone"
  /\ last.via = "Start"
  /\ Len(reg) >= 2

\* the lights a concrete light set holds
LightsOf(ls) == {i \in DOMAIN ls.m : ls.m[i]}

\* the step leaves the executor as it was and returns no handle from op
ReturnsNil(c, op) ==
  /\ tc' = tc
  /\ ended' = ended
  /\ starting' = starting
  /\ nextRef' = nextRef
  /\ last'.op = op
  /\ last'.res = NilExec
  /\ pc'[c].op = "idle"

\* every task of the registry is in the snapshot caller c took: no task
\* was admitted since
NothingAdmittedSince(c) ==
  \A i \in 1..Len(reg) :
    \E k \in 1..Len(pc[c].snap) : pc[c].snap[k].ref = reg[i].t.ref

StartsAlone(c, h, ls) ==
  LET used == UsedLights(h, ls)
  IN  /\ ended' = ended
      /\ pc'[c].op = "idle"
      /\ last'.op = "Start"
      /\ IF DrivesAny(used)
         THEN /\ reg' = << [t |-> HueTaskWrapper(nextRef, h, used), e |-> nextRef] >>
              /\ last'.res = nextRef
         ELSE /\ reg' = << >>
              /\ last'.res = NilExec

\* C4: on an empty registry Start and MaybeStart have the same outcome, the
\* one described by StartsAlone, whatever the action and the requested set.
MaybeStartOnEmptyIsStart ==
  [][\A c \in Callers, h \in HueTasks, ls \in Requests :
       /\ (/\ pc[c].op = "idle"
           /\ reg = << >>
           /\ last'.via = "Start"
           /\ Start(c, "call", h, ls)) => StartsAlone(c, h, ls)
       /\ (/\ pc[c].op = "MaybeStart"
           /\ pc[c].snap = << >>
           /\ reg = << >>
           /\ MaybeStart(c, h, ls)) => StartsAlone(c, h, ls)]_vars

\* MaybeStart on an empty registry started the action that uses all lights
AllActionStartedByMaybeStart ==
  /\ last.op = "Start"
  /\ last.via = "MaybeStart"
  /\ Len(reg) = 1
  /\ reg[1].t.H.act = "longAll"
  /\ reg[1].t.Ls = All

\* C5: with a non-empty snapshot, MaybeStart returns no handle and leaves the
\* registry as it is when the action needs all lights or when a task of the
\* snapshot holds all lights.
MaybeStartDeclinesOnAll ==
  [][\A c \in Callers, h \in HueTasks, ls \in Requests :
       (/\ pc[c].op = "MaybeStart"
        /\ Len(pc[c].snap) > 0
        /\ \/ UsedLights(h, ls).isNil
           \/ \E k \in 1..Len(pc[c].snap) : pc[c].snap[k].Ls.isNil
        /\ MaybeStart(c, h, ls))
         => ReturnsNil(c, "MaybeStart")]_vars

\* MaybeStart has declined while a task holding all lights runs
DeclinedBesideAll ==
  /\ last.op = "MaybeStart"
  /\ last.res = NilExec
  /\ \E i \in 1..Len(reg) : reg[i].t.Ls.isNil

NothingAffected(c) ==
  /\ tc' = tc
  /\ ended' = ended
  /\ starting' = starting
  /\ tstate' = tstate
  /\ nextRef' = nextRef
  /\ last'.res = NilExec
  /\ pc'[c].op = "idle"

\* C7: when the action uses no light of the requested set, Start and
\* MaybeStart return no handle and Schedule does nothing: no task is added
\* to either registry and no running or pending task is affected.
NoLightsIsDeclined ==
  [][\A c \in Callers :
       /\ (pc[c].op = "idle" /\ last'.via = "Start")
            => \A h \in SchedHueTasks, ls \in SchedRequests :
                 (~DrivesAny(UsedLights(h, ls)) /\ Start(c, "call", h, ls))
                   => NothingAffected(c)
       /\ pc[c].op = "MaybeStart"
            => \A h \in SchedHueTasks, ls \in SchedRequests :
                 (~DrivesAny(UsedLights(h, ls)) /\ MaybeStart(c, h, ls))
                   => NothingAffected(c)
       /\ (pc[c].op = "idle" /\ last'.via = "Schedule")
            => \A h \in SchedHueTasks, ls \in SchedRequests, st \in 0..MaxTime :
                 (~DrivesAny(UsedLights(h, ls)) /\ Schedule(c, h, ls, st))
                   => NothingAffected(c)]_vars

\* Schedule has declined beside a running and a pending task
ScheduleDeclinedBesideTasks ==
  /\ last.op = "Schedule"
  /\ last.res = NilExec
  /\ Len(reg) >= 1
  /\ Len(sched) >= 1

\* the indexes of the entries of c whose task is the object t
IndexesOf(c, t) == {i \in 1..Len(c) : c[i].t.ref = t.ref}

Least(S) == CHOOSE i \in S : \A j \in S : i <= j

\* c without its entry at index idx, the others in their order
Without(c, idx) ==
  [k \in 1..(Len(c) - 1) |-> IF k < idx THEN c[k] ELSE c[k + 1]]

\* the Remove(t) step takes out the first entry of the object t, if any
RemovesFirst(t) ==
  IF IndexesOf(coll, t) = {} THEN coll' = coll
  ELSE coll' = Without(coll, Least(IndexesOf(coll, t)))

\* C8 as stated: Remove(t) takes out the first entry whose task is the object
\* t and keeps the others in order, does nothing when t is absent, and a
\* Remove(t) that follows a Remove(t) changes nothing.
RemoveTwiceIsRemoveOnce ==
  [][\A t \in TaskPool :
       CRemove(t)
         => /\ RemovesFirst(t)
            /\ (clast.op = "Remove" /\ clast.t = t) => coll' = coll]_vars

\* C8 amended: Remove(t) takes out the first entry whose task is the object
\* t and keeps the others in order, does nothing when t is absent, and a
\* Remove(t) that follows a Remove(t) changes nothing if t was registered at
\* most once before the first of the two.
RemoveTakesFirstOfTheObject ==
  [][\A t \in TaskPool :
       CRemove(t)
         => /\ RemovesFirst(t)
            /\ (/\ clast.op = "Remove"
                /\ clast.t = t
                /\ Cardinality(IndexesOf(clast.pre, t)) <= 1) => coll' = coll]_vars

\* Remove has taken out the second of two entries whose tasks hold the same
\* hue task and lights: the first, another object, is still there
RemovedTheObjectNotItsTwin ==
  /\ clast.op = "Remove"
  /\ Len(clast.pre) >= 2
  /\ clast.pre[2].t = clast.t
  /\ clast.pre[1].t.ref # clast.t.ref
  /\ clast.pre[1].t.H = clast.t.H
  /\ clast.pre[1].t.Ls = clast.t.Ls
  /\ coll = Without(clast.pre, 2)

RECURSIVE HandlesOn(_, _, _)
\* the handles of the entries of c from index i on whose light set shares a
\* light with ls, in order
HandlesOn(c, ls, i) ==
  IF i > Len(c) THEN << >>
  ELSE IF SharesLight(c[i].t.Ls, ls)
       THEN << c[i].e >> \o HandlesOn(c, ls, i + 1)
       ELSE HandlesOn(c, ls, i + 1)

\* C9: Conflicts(nil) returns the handles of all entries in insertion order;
\* Conflicts(t) returns the handles of the entries whose light set shares a
\* light with that of t, in registry order.
ConflictsAreTheOverlapping ==
  clast.op = "Conflicts"
    => IF clast.t = NilTask
       THEN clast.res = [i \in 1..Len(coll) |-> coll[i].e]
       ELSE clast.res = HandlesOn(coll, clast.t.Ls, 1)

\* Conflicts(t) has returned some handles and left out others
SomeConflictSomeNot ==
  /\ clast.op = "Conflicts"
  /\ clast.t # NilTask
  /\ Len(clast.res) >= 1
  /\ Len(clast.res) < Len(coll)

\* the identity of htw1 of the test, "17:1,3"
Htw1Id == << "1", "7", ":", "1", ",", "3" >>

\* the indexes of the entries of c whose task has identity id
IndexesWithId(c, id) == {i \in 1..Len(c) : TaskId(c[i].t) = id}

\* C10: FindByTaskId(id) returns the handle of the first entry whose task
\* identity is id, none if there is no such entry; after Add(t1, e1) and
\* Add(t2, e2) it returns e1 for t1's identity, and after Remove(t1) it does
\* not return the handle of the removed entry.
FindReturnsFirstWithIdentity ==
  [][\A id \in {TaskId(t) : t \in TaskPool} \cup {AbsentId} :
       CFind(id)
         => /\ clast'.found =
                 IF IndexesWithId(coll, id) = {} THEN NilExec
                 ELSE coll[Least(IndexesWithId(coll, id))].e
            /\ (/\ Len(coll) = 2
                /\ coll[1].t = PoolTask(1)
                /\ coll[2].t = PoolTask(3)
                /\ id = Htw1Id) => clast'.found = coll[1].e
            /\ (/\ clast.op = "Remove"
                /\ IndexesOf(clast.pre, clast.t) # {}
                /\ id = TaskId(clast.t))
                 => clast'.found # clast.pre[Least(IndexesOf(clast.pre, clast.t))].e]_vars

\* FindByTaskId has returned the first of two handles registered under the
\* same identity
FoundFirstOfTwo ==
  /\ clast.op = "Find"
  /\ Cardinality(IndexesWithId(coll, clast.id)) >= 2
  /\ clast.found = coll[Least(IndexesWithId(coll, clast.id))].e

\* the registry Stop (the executor's) or Cancel (the timer's) looks into
RegistryOf(op) == IF op = "Stop" THEN reg ELSE sched

\* what Stop(id) or Cancel(id) does when called by c: with a task of that
\* identity registered it requests the end of the first such task and waits;
\* with none it returns at once and changes nothing
EndsAndWaits(c, op, id) ==
  LET r == RegistryOf(op)
      found == {i \in 1..Len(r) : TaskId(r[i].t) = id}
  IN  /\ tc' = tc
      /\ starting' = starting
      /\ tstate' = tstate
      /\ IF found = {}
         THEN /\ ended' = ended
              /\ pc'[c].op = "idle"
         ELSE /\ ended' = ended \cup {r[Least(found)].e}
              /\ pc'[c].op = op
              /\ pc'[c].e = r[Least(found)].e

\* C11: Stop(id) and Cancel(id) request the end of the registered task with
\* that identity and return only once that task has left its registry; with
\* no such task they return at once and change nothing.
StopAndCancelAreSynchronous ==
  [][\A c \in Callers :
       /\ (pc[c].op = "idle" /\ last'.via \in {"Stop", "Cancel"})
            => \A id \in KnownIds(reg) \cup KnownIds(sched) :
                 /\ Stop(c, id) => EndsAndWaits(c, "Stop", id)
                 /\ Cancel(c, id) => EndsAndWaits(c, "Cancel", id)
       /\ (pc[c].op \in {"Stop", "Cancel"} /\ pc'[c].op = "idle")
            => /\ pc[c].e \notin Refs(RegistryOf(pc[c].op))
               /\ tc' = tc]_vars

\* Cancel has returned after the timer task it ended has left the scheduler
CancelReturned ==
  /\ last.op = "Done"
  /\ last.via = "Cancel"
  /\ last.res \notin Refs(sched)

\* C12: a Schedule with a non-none used light set ends no task and does not
\* wait: the scheduler's registry is the one before followed by the new timer
\* task, whatever is pending.  Timer tasks are never in the executor's
\* registry, and a Start ends running hue tasks only and is registered at
\* once when no running hue task shares a light with it.
TimerTasksNeverConflict ==
  [][/\ \A i \in 1..Len(reg') : reg'[i].t.kind = "hue"
     /\ \A i \in 1..Len(sched') : sched'[i].t.kind = "timer"
     /\ \A c \in Callers :
          /\ (pc[c].op = "idle" /\ last'.via = "Schedule")
               => \A h \in SchedHueTasks, ls \in SchedRequests, st \in 0..MaxTime :
                    (DrivesAny(UsedLights(h, ls)) /\ Schedule(c, h, ls, st))
                      => /\ ended' = ended
                         /\ pc'[c].op = "idle"
                         /\ reg' = reg
                         /\ sched' = Append(sched,
                              [t |-> TimerTaskWrapper(nextRef, h, UsedLights(h, ls), st),
                               e |-> nextRef])
          /\ (pc[c].op = "idle" /\ last'.via = "Start")
               => \A h \in SchedHueTasks, ls \in SchedRequests :
                    (DrivesAny(UsedLights(h, ls)) /\ Start(c, "call", h, ls))
                      => /\ ended' \ ended \subseteq Refs(reg)
                         /\ sched' = sched
                         /\ RunningOn(UsedLights(h, ls)) = {}
                              => (pc'[c].op = "idle" /\ Len(reg') = Len(reg) + 1)]_vars

\* two timer tasks with the same action, lights and trigger time are pending
TwoIdenticalTimersPending ==
  /\ last.op = "Schedule"
  /\ Len(sched) = 2
  /\ sched[1].t.H = sched[2].t.H
  /\ sched[1].t.Ls = sched[2].t.Ls
  /\ sched[1].t.StartTime = sched[2].t.StartTime
  /\ sched[2].e = last.res

\* the step takes timer task r out of the scheduler and leaves the executor
\* as it was: nothing is submitted
LeavesWithoutSubmitting(r) ==
  /\ reg' = reg
  /\ starting' = starting
  /\ nextRef' = nextRef
  /\ r \notin Refs(sched')
  /\ r \notin DOMAIN tstate'

\* C13: a timer task whose trigger time is not later than the clock when its
\* Do begins submits nothing and leaves the scheduler's registry.
PastTimerDoesNothing ==
  [][\A r \in DOMAIN tstate :
       (/\ tstate[r] = "new"
        /\ EntryOf(sched, r).t.StartTime <= now
        /\ TimerBegin(r)) => LeavesWithoutSubmitting(r)]_vars

\* a timer task whose trigger time is the current time has left without
\* submitting
TimerLeftAtItsTime ==
  /\ last.op = "TimerPast"
  /\ now = 1
  /\ Len(reg) = 0
  /\ nextRef = 2

\* the step submits the action of timer task r to the executor, with the
\* lights the timer task is bound to: the hue task is registered or its Start
\* waits for the tasks it ends
Submits(r) ==
  LET t == EntryOf(sched, r).t
      w == HueTaskWrapper(nextRef, t.H, UsedLights(t.H, t.Ls))
  IN  /\ nextRef' = nextRef + 1
      /\ \/ /\ reg' = Append(reg, [t |-> w, e |-> nextRef])
            /\ r \notin Refs(sched')
            /\ r \notin DOMAIN tstate'
         \/ /\ reg' = reg
            /\ starting'.exec.busy
            /\ starting'.exec.t = w
            /\ starting'.exec.tref = r
            /\ tstate'[r] = "starting"

\* C14: a sleeping timer task submits its action, with its bound lights, in
\* the step in which its sleep ends, and only if the time has come and its
\* execution was not ended; it is then no longer sleeping, so it submits
\* once.  Woken by a cancellation it leaves without submitting.  Nothing
\* else submits on behalf of a timer task, and a timer task whose Start has
\* returned is no longer in the scheduler's registry.
TimerSubmitsOnceUnlessCancelled ==
  [][/\ \A r \in DOMAIN tstate :
          /\ (tstate[r] = "sleep" /\ TimerFire(r))
               => /\ r \notin ended
                  /\ now >= EntryOf(sched, r).t.StartTime
                  /\ Submits(r)
          /\ (tstate[r] = "sleep" /\ TimerInterrupted(r))
               => /\ r \in ended
                  /\ LeavesWithoutSubmitting(r)
          /\ (tstate[r] = "sleep" /\ r \in ended /\ r \in DOMAIN tstate')
               => tstate'[r] = "sleep"
     /\ (last'.via = "Timer" /\ last'.op \in {"Start", "StartWait"})
          => \E r \in DOMAIN tstate : tstate[r] = "sleep" /\ r \notin ended
     /\ (last'.via = "Timer" /\ last'.op = "StartDone")
          => /\ starting.exec.tref \notin Refs(sched')
             /\ reg' = Append(reg, [t |-> starting.exec.t, e |-> starting.exec.t.ref])]_vars

\* the action of a timer task was submitted and runs; the timer task is gone
TimerSubmittedItsAction ==
  /\ last.op = "Start"
  /\ last.via = "Timer"
  /\ Len(reg) = 1
  /\ reg[1].e = last.res
  /\ Len(sched) = 0

\* the lights a concrete set holds: its keys with the value true
TrueKeys(l) == {i \in DOMAIN l.m : l.m[i]}

\* the set is not none: it is all lights or holds some light
NonNone(l) == l.isNil \/ TrueKeys(l) # {}

\* C20: OverlapsWith gives the same answer with receiver and argument
\* exchanged, and the answer is true exactly when both sets are non-none and
\* one of them is all lights or they hold a light in common.
OverlapsIsSymmetricAndExact ==
  lop = "OverlapsWith" =>
    /\ lres = OverlapsWith(lb, la)
    /\ lres = (/\ NonNone(la)
               /\ NonNone(lb)
               /\ (la.isNil \/ lb.isNil \/ TrueKeys(la) \cap TrueKeys(lb) # {}))

\* two concrete sets overlap, the receiver being the larger map and holding
\* an entry marked false
LargerReceiverOverlaps ==
  /\ lop = "OverlapsWith"
  /\ lres
  /\ ~la.isNil /\ ~lb.isNil
  /\ MapLen(la) > MapLen(lb)
  /\ \E i \in DOMAIN la.m : ~la.m[i]

\* the steps of the loop between <-s.first and s.second <- empty
PushSteps == << "PauseBase", "Snapshot", "ResumeExtra" >>

\* the steps of the loop in one round, with or without a restoration
RoundSteps(restores) ==
  PushSteps \o << "PauseExtra" >> \o
  (IF restores THEN << "Restore" >> ELSE << >>) \o << "ResumeBase" >>

\* caller c returns from op in this step
Returns(c, op) == spc[c].op = op /\ spc'[c].op = "idle"

\* C15: when Push returns the loop has paused Base, then called Snapshot,
\* then resumed Extra, and nothing else; Base is paused with no task of it
\* running and Extra is resumed.  Snapshot is called with Base paused and no
\* task of Base running, and a snapshot it returns holds the look the lights
\* have then.
PushReturnsAfterPauseSnapshotResume ==
  [][/\ \A c \in StackCallers :
          Returns(c, "Push")
            => /\ stack.done = PushSteps
               /\ mex.Base.paused
               /\ mex.Base.active = 0
               /\ ~mex.Extra.paused
     /\ (stack'.done = Append(stack.done, "Snapshot"))
          => /\ stack.done = << "PauseBase" >>
             /\ mex.Base.paused
             /\ mex.Base.active = 0
             /\ (~stack'.lightColors.isNil => stack'.lightColors.look = look)]_vars

\* a Push has returned with a snapshot taken after a task of Base changed
\* the look of the lights
PushReturnedWithSnapshot ==
  /\ stack.at = "third"
  /\ stack.done = PushSteps
  /\ ~stack.lightColors.isNil
  /\ stack.lightColors.look = 1
  /\ \A c \in StackCallers : spc[c].op = "idle"

\* C16: when Pop returns the loop has, after the steps of the Push, paused
\* Extra, then run the restoration if lightColors is not nil, then resumed
\* Base, and nothing else; Base is resumed and Extra is paused with no task
\* of it running.  The restoration runs with Extra paused, no task of Extra
\* running and Base still paused.
PopReturnsAfterPauseRestoreResume ==
  [][/\ \A c \in StackCallers :
          Returns(c, "Pop")
            => /\ stack.done = RoundSteps(~stack.lightColors.isNil)
               /\ ~mex.Base.paused
               /\ mex.Extra.paused
               /\ mex.Extra.active = 0
     /\ (stack'.done = Append(stack.done, "Restore"))
          => /\ stack.done = PushSteps \o << "PauseExtra" >>
             /\ mex.Extra.paused
             /\ mex.Extra.active = 0
             /\ mex.Base.paused
             /\ ~stack.lightColors.isNil]_vars

\* a Pop is about to return after a restoration that gave the lights back
\* the look a task of Extra had changed
PopRestoredTheLook ==
  /\ stack.at = "fourth"
  /\ stack.done = RoundSteps(TRUE)
  /\ stack.lightColors.look = 0
  /\ look = 0
  /\ \E c \in StackCallers : spc[c] = [op |-> "Pop", ch |-> "fourth"]
  /\ \E c \in StackCallers : spc[c] = [op |-> "Push", ch |-> "first"]

\* the callers whose request the loop has received and not yet acknowledged
InFlight == {c \in StackCallers : spc[c].ch \in {"second", "fourth"}}

\* s is the beginning of t
IsPrefix(s, t) == Len(s) <= Len(t) /\ \A i \in 1..Len(s) : s[i] = t[i]

\* C17: the loop receives a request only when none is in flight, a Push
\* first and then Pop and Push in turn; at most one request is in flight;
\* the steps the loop has run since it received a Push are the beginning of
\* one round; and the caller that returns is the one whose request the loop
\* received, returning from the operation it called.
OneRequestAtATimeInTurn ==
  [][/\ Cardinality({c \in StackCallers : spc'[c].ch \in {"second", "fourth"}}) <= 1
     /\ \/ IsPrefix(stack'.done, RoundSteps(TRUE))
        \/ IsPrefix(stack'.done, RoundSteps(FALSE))
     /\ \A c \in StackCallers :
          /\ (spc[c].ch \in {"first", "third"} /\ spc'[c].ch \in {"second", "fourth"})
               => /\ InFlight = {}
                  /\ spc[c].op = "Push" => stack.accepted \in {"none", "Pop"}
                  /\ spc[c].op = "Pop" => stack.accepted = "Push"
                  /\ spc'[c].ch = IF spc[c].op = "Push" THEN "second" ELSE "fourth"
          /\ (spc[c].op # "idle" /\ spc'[c].op = "idle")
               => /\ InFlight = {c}
                  /\ stack.from = c
                  /\ stack.accepted = spc[c].op
                  /\ stack.done = IF spc[c].op = "Push" THEN PushSteps
                                  ELSE RoundSteps(~stack.lightColors.isNil)]_vars

\* the Push of one caller is in flight while another caller waits in Push
\* and, with more callers, another in Pop
PushInFlightOthersWait ==
  /\ stack.at = "second"
  /\ stack.accepted = "Push"
  /\ \E c \in StackCallers :
       /\ spc[c] = [op |-> "Push", ch |-> "second"]
       /\ \E d \in StackCallers \ {c} : spc[d].ch \in {"first", "third"}

\* C18: when Snapshot fails the loop goes on: lightColors is nil, the Push
\* returns with Extra resumed, the round runs no restoration, the Pop
\* returns with Base resumed and the loop is back at <-s.first, where it
\* receives the next Push.
SnapshotFailureKeepsLoopGoing ==
  [][/\ stack'.at # "stopped"
     /\ (stack.at = "snapshot" /\ stack'.err)
          => /\ stack'.lightColors.isNil
             /\ stack'.at = "resumeExtra"
     /\ stack'.err => (\A i \in 1..Len(stack'.done) : stack'.done[i] # "Restore")
     /\ (stack.err /\ stack.at = "restore") => look' = look
     /\ \A c \in StackCallers :
          /\ (Returns(c, "Push") /\ stack.err) => ~mex.Extra.paused
          /\ (Returns(c, "Pop") /\ stack.err)
               => /\ stack.done = RoundSteps(FALSE)
                  /\ ~mex.Base.paused
                  /\ stack'.at = "first"
          /\ (stack.hadErr /\ stack.at = "first" /\ spc[c].ch = "first")
               => ENABLED loopReceive(c)]_vars

\* after a round whose Snapshot failed, the Push of a later round has
\* returned with a snapshot
LaterPushServedAfterFailure ==
  /\ stack.hadErr
  /\ ~stack.err
  /\ stack.at = "third"
  /\ ~stack.lightColors.isNil

\* the task of execution e is listed by Tasks() or by Scheduled()
Listed(e) == e \in Refs(reg) \cup Refs(sched)

\* C19: a task is added to its registry in the step that starts it, leaves
\* it only in the step in which its Do returns, is listed once and never in
\* both registries; and a listed task whose end was requested is eventually
\* no longer listed.
ListedExactlyWhileActive ==
  /\ [](/\ Refs(reg) \cap Refs(sched) = {}
        /\ Cardinality(Refs(reg)) = Len(reg)
        /\ Cardinality(Refs(sched)) = Len(sched))
  /\ [][/\ (/\ last'.op \in {"Start", "StartDone"}
            /\ last'.via # "Schedule"
            /\ last'.res # NilExec)
             => (last'.res \in Refs(reg') /\ last'.res \notin Refs(reg))
        /\ (last'.op = "Schedule" /\ last'.res # NilExec)
             => (last'.res \in Refs(sched') /\ last'.res \notin Refs(sched))
        /\ \A e \in Refs(reg) \ Refs(reg') :
             /\ last'.op = "TaskFinish" /\ last'.res = e
             /\ Refs(reg') = Refs(reg) \ {e}
        /\ \A r \in Refs(sched) \ Refs(sched') :
             /\ last'.via = "Timer"
             /\ Refs(sched') = Refs(sched) \ {r}
             /\ r \notin DOMAIN tstate']_vars
  /\ \A e \in 1..MaxTimerStarts : (e \in ended) ~> ~Listed(e)

\* a hue task ended by Stop has left the executor's registry while a timer
\* task is pending
EndedTaskHasLeft ==
  /\ last.op = "TaskFinish"
  /\ ~Listed(last.res)
  /\ \E c \in Callers : pc[c].op = "Stop" /\ pc[c].e = last.res
  /\ Len(sched) = 1

\* x and y are the same set of lights, whatever the maps look like
SameSet(x, y) ==
  /\ x # Panic /\ y # Panic
  /\ x.isNil = y.isNil
  /\ TrueKeys(x) = TrueKeys(y)

\* C21: Intersect gives the same set with receiver and argument exchanged;
\* with all lights on one side it gives the other side, all lights for all
\* lights; with none on one side it gives none; and for two concrete sets it
\* gives a concrete set holding exactly the lights both hold.
IntersectIsCommutativeAndExact ==
  lop = "Intersect" =>
    /\ SameSet(lres, Intersect(lb, la))
    /\ la.isNil => lres = lb
    /\ lb.isNil => lres = la
    /\ (~NonNone(la) \/ ~NonNone(lb)) => (~lres.isNil /\ TrueKeys(lres) = {})
    /\ (~la.isNil /\ ~lb.isNil)
         => (~lres.isNil /\ TrueKeys(lres) = TrueKeys(la) \cap TrueKeys(lb))

\* two concrete sets have a light in common, the receiver being the larger
\* map and one of the maps holding an entry marked false
IntersectOfLargerReceiver ==
  /\ lop = "Intersect"
  /\ ~la.isNil /\ ~lb.isNil
  /\ MapLen(la) > MapLen(lb)
  /\ TrueKeys(lres) # {}
  /\ TrueKeys(lres) # TrueKeys(la)
  /\ \E i \in DOMAIN la.m : ~la.m[i]

\* C22: Add gives all lights exactly when the receiver or the argument is
\* all lights, and otherwise a concrete set holding exactly the lights that
\* one of the two holds; adding none to a concrete set, or a concrete set to
\* none, gives that set.
AddIsUnion ==
  lop = "Add" =>
    /\ lres # Panic
    /\ lres.isNil <=> (la.isNil \/ lb.isNil)
    /\ (~la.isNil /\ ~lb.isNil)
         => TrueKeys(lres) = TrueKeys(la) \cup TrueKeys(lb)
    /\ (~NonNone(la) /\ ~lb.isNil) => SameSet(lres, lb)
    /\ (~NonNone(lb) /\ ~la.isNil) => SameSet(lres, la)

\* two concrete sets, each with a light the other lacks, were added
AddOfTwoDifferentSets ==
  /\ lop = "Add"
  /\ ~lres.isNil
  /\ TrueKeys(la) \ TrueKeys(lb) # {}
  /\ TrueKeys(lb) \ TrueKeys(la) # {}
  /\ \E i \in DOMAIN lb.m : ~lb.m[i]

\* C23: for a concrete receiver Subtract gives a concrete set holding
\* exactly the receiver's lights that the argument does not hold: all of
\* them when the argument is none, none of them when it is all lights; and
\* the result does not overlap the argument.
SubtractIsDifference ==
  (lop = "Subtract" /\ ~la.isNil) =>
    /\ lres # Panic
    /\ ~lres.isNil
    /\ TrueKeys(lres) = IF lb.isNil THEN {} ELSE TrueKeys(la) \ TrueKeys(lb)
    /\ ~NonNone(lb) => TrueKeys(lres) = TrueKeys(la)
    /\ ~OverlapsWith(lres, lb)
    /\ ~OverlapsWith(lb, lres)

\* a light was kept although the argument has its key, marked false, while
\* another light was taken away
SubtractKeptLightMarkedFalse ==
  /\ lop = "Subtract"
  /\ ~la.isNil /\ ~lb.isNil
  /\ \E i \in TrueKeys(lres) : i \in DOMAIN lb.m
  /\ TrueKeys(la) \ TrueKeys(lres) # {}

\* the text holds nothing but spaces
IsBlank(text) == \A i \in 1..Len(text) : text[i] = " "

\* the comma separated tokens of a text, spaces around them left out
Tokens(text) ==
  LET pieces == Split(TrimSpace(text), ",")
  IN  [i \in 1..Len(pieces) |-> TrimSpace(pieces[i])]

\* the digits of a token, a leading plus sign left out
DigitsOf(tok) == IF Len(tok) > 0 /\ tok[1] = "+" THEN Tail(tok) ELSE tok

\* the token writes a positive integer: digits, not all of them zero
PositiveLiteral(tok) ==
  LET d == DigitsOf(tok)
  IN  /\ Len(d) > 0
      /\ \A i \in 1..Len(d) : IsDigit(d[i])
      /\ \E i \in 1..Len(d) : d[i] # "0"

RECURSIVE Pow10(_)
Pow10(k) == IF k = 0 THEN 1 ELSE 10 * Pow10(k - 1)

RECURSIVE PlaceSum(_, _)
\* the sum of the digits of d from position i on, each times its power of ten
PlaceSum(d, i) ==
  IF i > Len(d) THEN 0
  ELSE DigitOf(d[i]) * Pow10(Len(d) - i) + PlaceSum(d, i + 1)

\* the number a positive literal writes
NumberOf(tok) == PlaceSum(DigitsOf(tok), 1)

\* C24: Parse returns an error and the nil set whenever a token of a text
\* that is not blank is no positive integer; when it succeeds the result is
\* all lights, and then the text is blank, or a concrete set whose keys all
\* hold true and are exactly the numbers of the tokens, at least one; it is
\* never a set of no lights.
ParseRejectsOrIsExact ==
  fop = "Parse" =>
    LET toks == Tokens(fin.text)
    IN  /\ (~IsBlank(fin.text)
            /\ \E i \in 1..Len(toks) : ~PositiveLiteral(toks[i]))
             => (fout.err /\ fout.result = All)
        /\ ~fout.err =>
             IF fout.result.isNil
             THEN fout.result = All /\ IsBlank(fin.text)
             ELSE /\ \A k \in DOMAIN fout.result.m : fout.result.m[k]
                  /\ DOMAIN fout.result.m # {}
                  /\ \A i \in 1..Len(toks) : PositiveLiteral(toks[i])
                  /\ DOMAIN fout.result.m =
                       {NumberOf(toks[i]) : i \in 1..Len(toks)}

\* a text of two tokens writing the same number was parsed into one light
ParsedTheSameNumberTwice ==
  /\ fop = "Parse"
  /\ ~fout.err
  /\ Len(Tokens(fin.text)) = 2
  /\ Cardinality(DOMAIN fout.result.m) = 1

\* C25: for a concrete set holding a light, String writes its lights, each
\* once, as numbers in strictly ascending order separated by commas and
\* nothing else, and Parse of that text succeeds with a concrete set holding
\* exactly the same lights.
StringThenParseGivesTheSet ==
  (fop = "StringParse" /\ ~fin.set.isNil /\ TrueKeys(fin.set) # {}) =>
    LET parts == Split(fout.text, ",")
    IN  /\ \A i \in 1..Len(parts) :
             /\ PositiveLiteral(parts[i])
             /\ parts[i] = DigitsOf(parts[i])
             /\ parts[i][1] # "0"
        /\ \A i \in 1..(Len(parts) - 1) :
             NumberOf(parts[i]) < NumberOf(parts[i + 1])
        /\ {NumberOf(parts[i]) : i \in 1..Len(parts)} = TrueKeys(fin.set)
        /\ ~fout.parsed.err
        /\ ~fout.parsed.result.isNil
        /\ TrueKeys(fout.parsed.result) = TrueKeys(fin.set)

\* a set holding 2 and the two digit light, and a key marked false, came
\* back from its text
TwoDigitLightCameBack ==
  /\ fop = "StringParse"
  /\ ~fin.set.isNil
  /\ {2, ExtraLight} \subseteq TrueKeys(fin.set)
  /\ \E k \in DOMAIN fin.set.m : ~fin.set.m[k]
  /\ ~fout.parsed.err

\* the text "All"
AllText == << "A", "l", "l" >>

\* C26 as stated: all lights is written "All", and Parse of the empty text
\* and Parse of the text "All" both succeed with all lights.
AllRoundTripsThroughText ==
  /\ (fop = "StringParse" /\ fin.set = All)
       => (fout.text = AllText /\ ~fout.parsed.err /\ fout.parsed.result = All)
  /\ (fop = "Parse" /\ fin.text \in {<< >>, AllText})
       => (~fout.err /\ fout.result = All)

\* C26, amended: all lights is written "All" and Parse of the empty text
\* succeeds with all lights, but Parse of the text "All" fails with an error.
AllIsWrittenAllButOnlyEmptyParses ==
  /\ (fop = "StringParse" /\ fin.set = All)
       => (fout.text = AllText /\ fout.parsed.err)
  /\ (fop = "Parse" /\ fin.text = << >>)
       => (~fout.err /\ fout.result = All)
  /\ (fop = "Parse" /\ fin.text = AllText) => fout.err

\* Parse was applied to the text "All", and failed
ParseOfAllTextFailed ==
  /\ fop = "Parse"
  /\ fin.text = AllText
  /\ fout.err

\* C27: two hue task wrappers have the same TaskId exactly when they have
\* the same hue task id and the same set of lights, whatever maps hold it;
\* two timer task wrappers exactly when they have, besides, start times in
\* the same second.
TaskIdTellsTheKey ==
  (fop = "TaskId" /\ fin.a.kind = fin.b.kind) =>
    (fout.a = fout.b <=>
       /\ fin.a.H.Id = fin.b.H.Id
       /\ SameSet(fin.a.Ls, fin.b.Ls)
       /\ fin.a.kind = "timer" =>
            fin.a.StartTime \div TicksPerSecond = fin.b.StartTime \div TicksPerSecond)

\* two timer tasks starting at different instants of one second, with the
\* same lights in different maps, have the same TaskId
SameIdFromDifferentMaps ==
  /\ fop = "TaskId"
  /\ fin.a.kind = "timer" /\ fin.b.kind = "timer"
  /\ fin.a.StartTime # fin.b.StartTime
  /\ fin.a.Ls # fin.b.Ls
  /\ fout.a = fout.b

\* the fields of a text between its colons
FieldsOf(text) == Split(text, ":")

\* a field is a decimal number
IsNumber(f) == Len(f) > 0 /\ \A i \in 1..Len(f) : IsDigit(f[i])

\* the seconds a text H:MM:SS or M:SS stands for
ShownSeconds(text) ==
  LET f == FieldsOf(text)
  IN IF Len(f) = 3
     THEN 3600 * NumberOf(f[1]) + 60 * NumberOf(f[2]) + NumberOf(f[3])
     ELSE 60 * NumberOf(f[1]) + NumberOf(f[2])

\* the text shows the whole seconds of max(0, StartTime - now + 1s)
ShowsTimeLeft(t, out) ==
  LET d0 == t.StartTime - out.now + TicksPerSecond
      secs == (IF d0 < 0 THEN 0 ELSE d0) \div TicksPerSecond
      f == FieldsOf(out.text)
  IN /\ Len(f) = (IF secs >= 3600 THEN 3 ELSE 2)
     /\ \A i \in 1..Len(f) : IsNumber(f[i])
     /\ \A i \in 2..Len(f) : Len(f[i]) = 2
     /\ Len(f[1]) = Len(Itoa(NumberOf(f[1])))
     /\ NumberOf(f[Len(f)]) \in 0..59
     /\ NumberOf(f[Len(f) - 1]) \in 0..59
     /\ ShownSeconds(out.text) = secs
     /\ out.now = t.StartTime => out.text = << "0", ":", "0", "1" >>
     /\ out.now >= t.StartTime + TicksPerSecond
          => out.text = << "0", ":", "0", "0" >>

\* C28: TimeLeftStr(now) shows the whole seconds of max(0, StartTime - now +
\* 1 second) as H:MM:SS from one hour on and as M:SS below, minutes and
\* seconds in 0..59; it shows 0:01 at the start time and 0:00 from one second
\* later on; and a later call never shows more than an earlier one.
TimeLeftStrCountsDown ==
  [][/\ ShowsTimeLeft(fin'.t, fout')
     /\ fop = "TimeLeftStr"
          => ShownSeconds(fout'.text) <= ShownSeconds(fout.text)]_vars

\* exactly one hour is left inside a second, shown with an hour field, after
\* an earlier call
OneHourLeftShown ==
  /\ fop = "TimeLeftStr"
  /\ fout.text = << "1", ":", "0", "0", ":", "0", "0" >>
  /\ (fin.t.StartTime - fout.now) % TicksPerSecond # 0
  /\ fout.now > 0

\* the result is hour:minute on the clock, after now and at most 24 hours
\* after it, no instant between now and the result is hour:minute on the
\* clock (the offsets of the zones are whole minutes and change by whole
\* hours, so such an instant is whole hours before the result), and the
\* result is 24 hours after now when now is hour:minute on the clock itself
WithinADay(in, out) ==
  /\ ReadsAt(in.loc, out.result, out.hour, out.minute)
  /\ out.result > in.now
  /\ out.result <= in.now + Day
  /\ \A k \in 1..((out.result - in.now - 1) \div Hour) :
       ~ReadsAt(in.loc, out.result - k * Hour, out.hour, out.minute)
  /\ ReadsAt(in.loc, in.now, out.hour, out.minute)
       => out.result = in.now + Day

SteadyZone(loc, n) ==
  loc.before = loc.after \/ loc.at <= n - Day \/ loc.at > n + Day

DoubleBooked(r) ==
  \E i, j \in 1..Len(r) : i < j /\ OverlapsWith(r[i].t.Ls, r[j].t.Ls)

\* a call of MaybeStart admits a task on a light that a running task holds
RacingAdmission ==
  /\ ~starting.exec.busy
  /\ starting'.exec.busy
  /\ starting'.exec.via = "MaybeStart"

RegistryStep(r, r2, note) ==
  \/ r2 = r
  \/ /\ Len(r2) = Len(r) + 1
     /\ SubSeq(r2, 1, Len(r)) = r
     /\ r2[Len(r2)].e \notin Refs(r)
  \/ \E i \in 1..Len(r) :
       /\ r2 = SubSeq(r, 1, i - 1) \o SubSeq(r, i + 1, Len(r))
       /\ note.op = "TaskFinish"
       /\ note.res = r[i].e

Admitted ==
  IF starting'.exec.busy /\ ~starting.exec.busy THEN starting'.exec.t
  ELSE reg'[Len(reg')].t

\* C31: whatever the UsedLights of the action, a MaybeStart that read
\* running tasks ends by declining or by starting a task on lights that no
\* task it read holds; it never panics.
FinalCheckDefendsAgainstAnyAction ==
  [][\A c \in Callers :
       (pc[c].op = "MaybeStart" /\ Len(pc[c].snap) > 0
          /\ pc'[c].op # "MaybeStart")
       => /\ pc'[c].op # "panicked"
          /\ nextRef' # nextRef
               => \A i \in 1..Len(pc[c].snap) :
                    ~OverlapsWith(Admitted.Ls, pc[c].snap[i].Ls)]_vars

\* goroutine g is between taking the lock and releasing it, as a writer
Writing(p, g) == p[g].at \in Inside /\ p[g].op \in WriteOps

\* C32: the calls of Add, Remove, Conflicts, FindByTaskId and Tasks made at
\* the same time act as if each ran alone at one instant: while a writer
\* holds the lock nobody else does (readers may hold it together); the list
\* changes only where an Add appends its entry to the list as it is then, or
\* a Remove takes its task out of the list as it is then, so no Add is lost;
\* a reader gets the answer for the list as it is, with no write under way;
\* and no handle is twice in the list.
RegistryCallsActOneAtATime ==
  [][/\ \A g, g2 \in LockCallers :
          (Writing(cpc', g) /\ g2 # g) => cpc'[g2].at \notin Inside
     /\ \A i, j \in 1..Len(coll') : coll'[i].e = coll'[j].e => i = j
     /\ coll' # coll =>
          \E g \in LockCallers : cpc[g].at = "read" /\ cpc'[g].at = "written"
     /\ \A g \in LockCallers :
          /\ (cpc[g].at = "read" /\ cpc'[g].at = "written") =>
                coll' = IF cpc[g].op = "Add"
                        THEN CollAdd(coll, cpc[g].t, cpc[g].e)
                        ELSE CollRemove(coll, cpc[g].t)
          /\ (cpc[g].at = "locked" /\ cpc'[g].at = "read"
                /\ cpc[g].op \in ReadOps) =>
                /\ \A g2 \in LockCallers : ~Writing(cpc, g2)
                /\ cpc'[g].res =
                     CASE cpc[g].op = "Conflicts" -> CollConflicts(coll, cpc[g].t)
                       [] cpc[g].op = "Find" -> << FindByTaskId(coll, cpc[g].id) >>
                       [] cpc[g].op = "Tasks" -> CollTasks(coll)]_vars

\* an Add waits for the lock while a reader holds it over a list of one
\* entry
AddWaitsForAReader ==
  \E g, g2 \in LockCallers :
    /\ cpc[g].op = "Add" /\ cpc[g].at = "call"
    /\ cpc[g2].op \in ReadOps /\ cpc[g2].at = "read"
    /\ Len(coll) = 1

\* C33: a light set with entries holding false gives, in every operation,
\* as receiver and as argument, the same result (the same set where the
\* result is a set) as the set without those entries; a concrete set whose
\* entries all hold false is none.
FalseEntriesDoNotShow ==
  fop \in SetOps =>
    /\ \/ fout.with = fout.without
       \/ /\ fop \in {"Intersect", "Subtract", "Add", "MutableAdd"}
          /\ SameSet(fout.with, fout.without)
    /\ (fop = "IsNone" /\ ~fin.a.isNil /\ \A i \in DOMAIN fin.a.m : ~fin.a.m[i])
         => fout.with = TRUE

\* IsNone of a map that holds entries, all of them false
AllFalseIsNone ==
  /\ fop = "IsNone"
  /\ ~fin.a.isNil
  /\ DOMAIN fin.a.m # {}
  /\ fout.with = TRUE

\* C34: every restoration runs inside a Pop (the loop has received a Pop
\* whose caller still waits for s.fourth), from a snapshot that the Snapshot
\* call of the same iteration of the loop returned and that has driven no
\* restoration before; no snapshot drives more than one restoration; and a
\* Pop that returns with a snapshot held has run exactly one restoration,
\* from the snapshot of its own iteration.
SnapshotServesItsOwnPopOnce ==
  [][/\ (stack'.done = Append(stack.done, "Restore") \/ stack'.uses > stack.uses)
          => /\ ~stack.lightColors.isNil
             /\ stack.taken = stack.cycle
             /\ stack.uses = 0
             /\ stack.accepted = "Pop"
             /\ spc[stack.from] = [op |-> "Pop", ch |-> "fourth"]
     /\ stack'.uses <= 1
     /\ \A c \in StackCallers :
          (Returns(c, "Pop") /\ ~stack.lightColors.isNil)
            => /\ stack.uses = 1
               /\ stack.taken = stack.cycle]_vars

\* the Pop of a later iteration of the loop is about to return after the
\* restoration from the snapshot of that iteration
LaterPopRestoredItsOwnSnapshot ==
  /\ stack.at = "fourth"
  /\ stack.cycle = 0
  /\ stack.taken = 0
  /\ stack.uses = 1
  /\ ~stack.lightColors.isNil

\* every caller is inside a Push issued while an earlier Push has completed
\* and has not been popped
AllInSecondPush ==
  /\ stack.at = "third"
  /\ \A c \in StackCallers : spc[c] = [op |-> "Push", ch |-> "first"]

\* C35: a Pop issued while the loop does not wait at <-s.third, and a Push
\* issued while the loop does not wait at <-s.first, stay where they are; the
\* loop receives a Pop only after it has run the steps of a Push and that
\* Push has returned, and a Push only at the start or after the steps of a
\* whole round, when the Pop has returned; and once every caller is inside a
\* Push issued after a Push that has not been popped, none of them returns.
OutOfTurnCallsBlock ==
  [][/\ \A c \in StackCallers :
          /\ (spc[c] = [op |-> "Pop", ch |-> "third"] /\ stack.at # "third")
               => spc'[c] = spc[c]
          /\ (spc[c] = [op |-> "Push", ch |-> "first"] /\ stack.at # "first")
               => spc'[c] = spc[c]
          /\ (spc[c].op = "Pop" /\ spc[c].ch = "third" /\ spc'[c].ch # "third")
               => /\ stack.done = PushSteps
                  /\ stack.accepted = "Push"
                  /\ InFlight = {}
          /\ (spc[c].op = "Push" /\ spc[c].ch = "first" /\ spc'[c].ch # "first")
               => /\ InFlight = {}
                  /\ \/ stack.accepted = "none" /\ stack.done = << >>
                     \/ /\ stack.accepted = "Pop"
                        /\ stack.done \in {RoundSteps(TRUE), RoundSteps(FALSE)}
     /\ AllInSecondPush => AllInSecondPush']_vars

\* a Push has returned and every caller then called Push: all of them wait
\* at s.first <- empty while the loop waits at <-s.third
SecondPushNeverReturns ==
  /\ AllInSecondPush
  /\ stack.done = PushSteps
  /\ stack.accepted = "Push"

\* C36: a Stack created with Extra paused never has Base and Extra resumed
\* at once; the loop resumes Extra only with Base paused and Base only with
\* Extra paused, and a task of one executor runs only while the other is
\* paused.
AtMostOneExecutorResumed ==
  [][/\ mex'.Base.paused \/ mex'.Extra.paused
     /\ (mex.Extra.paused /\ ~mex'.Extra.paused)
          => mex.Base.paused /\ stack.done = << "PauseBase", "Snapshot" >>
     /\ (mex.Base.paused /\ ~mex'.Base.paused)
          => mex.Extra.paused /\ stack.at = "resumeBase"
     /\ mex'.Base.active > mex.Base.active => mex.Extra.paused
     /\ mex'.Extra.active > mex.Extra.active => mex.Base.paused]_vars

\* after a Push, a task of Extra runs while Base is paused with none of its
\* tasks running
ExtraRunsWhileBasePaused ==
  /\ stack.at = "third"
  /\ ~mex.Extra.paused
  /\ mex.Extra.active > 0
  /\ mex.Base.paused
  /\ mex.Base.active = 0

\* the kinds of the records of execution r, in the order they were logged
RecordsOf(r) ==
  LET F[i \in 0..Len(hlog)] ==
        IF i = 0 THEN << >>
        ELSE IF hlog[i].run = r THEN Append(F[i - 1], hlog[i].kind)
        ELSE F[i - 1]
  IN F[Len(hlog)]

\* C37: an execution with a logger has logged nothing before Do begins,
\* START alone while the action runs, and START followed by one outcome once
\* Do has returned; the outcome is ERROR when the execution holds an error
\* as the outcome is logged, ended or not, else INTERRUPTED when it has been
\* ended, else FINISH; an execution without a logger logs nothing; and what
\* Start returned to its caller is the execution, from before Do began, and
\* it is not changed when the error is set or logged.
DoLogsStartThenOneOutcome ==
  [][\A r \in Runs :
       /\ wrun'[r].log
            => /\ wrun'[r].at \in {"none", "Do"} => RecordsOf(r)' = << >>
               /\ wrun'[r].at \in {"H.Do", "outcome"} => RecordsOf(r)' = << "START" >>
               /\ wrun'[r].at = "returned"
                    => /\ Len(RecordsOf(r)') = 2
                       /\ RecordsOf(r)'[1] = "START"
                       /\ RecordsOf(r)'[2] \in {"ERROR", "INTERRUPTED", "FINISH"}
       /\ ~wrun'[r].log => RecordsOf(r)' = << >>
       /\ (wrun[r].log /\ wrun[r].at = "outcome" /\ wrun'[r].at = "returned")
            => /\ wrun[r].err => RecordsOf(r)'[2] = "ERROR"
               /\ (~wrun[r].err /\ wrun[r].ended) => RecordsOf(r)'[2] = "INTERRUPTED"
               /\ (~wrun[r].err /\ ~wrun[r].ended) => RecordsOf(r)'[2] = "FINISH"
       /\ wrun[r].at # "none"
            => wrun[r].got = "Execution" /\ wrun'[r].got = wrun[r].got]_vars

\* an execution whose action set an error and which was also ended has
\* logged START and ERROR, the records of another execution lying between
ErrorLoggedThoughEnded ==
  \E r \in Runs :
    /\ wrun[r].at = "returned"
    /\ wrun[r].err
    /\ wrun[r].ended
    /\ RecordsOf(r) = << "START", "ERROR" >>
    /\ Len(hlog) > 2
    /\ hlog[1].run = r
    /\ hlog[Len(hlog)].run = r

\* the pending timer tasks that have the identity of the timer task r
SameIdentity(r) ==
  {sched[i].e : i \in {j \in 1..Len(sched) :
                         TaskId(sched[j].t) = TaskId(EntryOf(sched, r).t)}}

PureOps == SetOps \ {"MutableAdd"}

\* the call left every map that was in the heap as it was, but those at the
\* addresses in except
LeftAlone(except) ==
  \A p \in DOMAIN fin.heap \ except : fout.heap[p] = fin.heap[p]

\* the call returned all lights or a map that was not in the heap before
ReturnedNew == fout.val = NilRef \/ fout.val \notin DOMAIN fin.heap

\* the two calls the documentation declares invalid
InvalidCall ==
  \/ fop = "Subtract" /\ fin.l = NilRef
  \/ fop = "MutableAdd" /\ fin.other = NilRef

\* MutableAdd changes no map but its receiver's, and the invalid calls panic
\* and change no map
MutableAddAndInvalidCalls ==
  /\ fop = "MutableAdd" => LeftAlone({fin.l})
  /\ InvalidCall => (fout.kind = "panic" /\ LeftAlone({}))

\* C39 as claimed: every operation but MutableAdd leaves the maps of its
\* receiver, of its argument and of None as they were and returns, when it
\* returns a Set, all lights or a map that was not in the heap before;
\* MutableAdd changes no map but its receiver's; the invalid calls panic and
\* change no map.
SetOperationsReturnNewValues ==
  fop \in SetOps =>
    /\ fop \in PureOps => LeftAlone({})
    /\ (fop \in PureOps /\ fout.kind = "set") => ReturnedNew
    /\ MutableAddAndInvalidCalls

\* the calls that hand back a map that exists already: Intersect with all
\* lights on one side returns the other side, and Subtract of all lights
\* returns None
ReturnsExisting ==
  \/ fop = "Intersect" /\ fin.l = NilRef
  \/ fop = "Intersect" /\ fin.other = NilRef
  \/ fop = "Subtract" /\ fin.l # NilRef /\ fin.other = NilRef

\* C39 amended: as claimed, but Intersect with all lights on one side
\* returns its other operand itself, Subtract of all lights returns the map
\* of None itself, and every other result is new.
SetOperationsArePureButMayShare ==
  fop \in SetOps =>
    /\ fop \in PureOps => LeftAlone({})
    /\ (fop \in PureOps /\ fout.kind = "set")
         => IF ReturnsExisting
            THEN fout.val = (IF fop = "Subtract" THEN NoneRef
                             ELSE IF fin.l = NilRef THEN fin.other ELSE fin.l)
            ELSE ReturnedNew
    /\ MutableAddAndInvalidCalls

\* All.Intersect(s) has returned the map of s itself, a map that is neither
\* empty nor None
IntersectWithAllReturnedItsOperand ==
  /\ fop = "Intersect"
  /\ fin.l = NilRef
  /\ fin.other \notin {NilRef, NoneRef}
  /\ fout.kind = "set"
  /\ fout.val = fin.other
  /\ Members(Deref(fin.heap, fin.other)) # {}

\* the channels that were c.stale and are not any more
Replaced == {n \in DOMAIN chans : n # cache.stale}

\* C40: the channel Get returns is c.stale with c.observation, it is a
\* channel and it is open; c.stale stays open for as long as it is c.stale;
\* a channel that was replaced is closed or is about to be closed by the Set
\* or Close that replaced it, and a client waiting on a closed channel can go
\* on; after Set(o) the cache holds o and a channel that did not exist
\* before; and no close ever meets a closed or a nil channel: no goroutine
\* panics.
CacheNotifiesAndClosesOnce ==
  [][/\ \A g \in CacheCallers :
          /\ (ccall[g].at = "idle" /\ ccall'[g].at = "got")
               => /\ ccall'[g].o = cache.observation
                  /\ ccall'[g].ch = cache.stale
                  /\ ccall'[g].ch # NilChan
                  /\ chans[ccall'[g].ch] = "open"
          /\ (ccall[g].at = "idle" /\ ccall'[g].op = "Set")
               => /\ cache'.observation = ccall'[g].o
                  /\ cache'.stale \notin DOMAIN chans
                  /\ chans'[cache'.stale] = "open"
          /\ (ccall[g].at = "close" /\ ccall'[g].at # "close")
               => /\ ccall[g].ch # NilChan
                  /\ chans[ccall[g].ch] = "open"
                  /\ chans'[ccall[g].ch] = "closed"
                  /\ ccall'[g].at = "idle"
          /\ ccall'[g].at # "panic"
          /\ (ccall[g].at = "got" /\ ccall[g].ch \in DOMAIN chans
                /\ chans[ccall[g].ch] = "closed")
               => ENABLED ClientNotified(g)
     /\ cache'.stale # NilChan => chans'[cache'.stale] = "open"
     /\ \A n \in DOMAIN chans' \ {cache'.stale} :
          \/ chans'[n] = "closed"
          \/ Cardinality({g \in CacheCallers :
                            ccall'[g].at = "close" /\ ccall'[g].ch = n}) = 1]_vars

=============================================================================
